---------------------------- MODULE Spec2Model ----------------------------
(***************************************************************************)
(* Workstream: the interactive tree-visualization engine.                  *)
(*                                                                         *)
(* The module models, from the TypeScript sources,                         *)
(*   - lib/utils: buildStreamTree and the focus-mode projection            *)
(*     (buildFocusedTree and its helpers),                                 *)
(*   - hooks/useVisualization: calculateTreeLayout and the zoom/pan state, *)
(*   - components/visualization/StreamTree: the viewport animations, the   *)
(*     node drag gesture, the position lock and the offset seeding effect, *)
(*   - hooks/useStreams and pages/ProjectPage: the snapshot listener, the  *)
(*     position update and the focus state.                                *)
(*                                                                         *)
(* Numbers.  Positions are whole pixels, zoom is kept in thousandths       *)
(* (1000 = zoom 1.0) and time in milliseconds; a JavaScript division is    *)
(* the integer division of the scaled operands.  Identifiers are strings;  *)
(* the empty string stands for null/undefined (both are falsy in the       *)
(* source, as the empty string is).  An optional position is the empty     *)
(* sequence when undefined and <<x, y>> otherwise.                         *)
(***************************************************************************)
EXTENDS Integers, Sequences, FiniteSets, TLC

null == ""

\* The stream ids of the model, in creation order.
Ids == <<"a", "b", "c", "d", "e", "f">>

\* Most streams a project holds in the model.
MaxStreams == 5

Min(a, b) == IF a < b THEN a ELSE b
Max(a, b) == IF a > b THEN a ELSE b
Abs(a) == IF a < 0 THEN -a ELSE a

Range(s) == {s[i] : i \in 1..Len(s)}

-----------------------------------------------------------------------------
(***************************************************************************)
(* lib/utils: buildStreamTree                                              *)
(***************************************************************************)

\* A Stream record as the snapshot listener builds it.
Stream(id, parent, created, position) ==
    [id |-> id, parent_stream_id |-> parent, status |-> "active",
     created_at |-> created, position |-> position]

RECURSIVE insertByCreatedAt(_, _)
insertByCreatedAt(sorted, node) ==
    IF sorted = <<>> THEN <<node>>
    ELSE IF node.created_at < Head(sorted).created_at
         THEN <<node>> \o sorted
         ELSE <<Head(sorted)>> \o insertByCreatedAt(Tail(sorted), node)

\* nodes.sort((a, b) => created_at(a) - created_at(b)): a stable sort.
RECURSIVE sortChildren(_)
sortChildren(nodes) ==
    IF nodes = <<>> THEN <<>>
    ELSE insertByCreatedAt(sortChildren(SubSeq(nodes, 1, Len(nodes) - 1)),
                           nodes[Len(nodes)])

hasParentIn(streams, s) ==
    /\ s.parent_stream_id # null
    /\ \E i \in 1..Len(streams) : streams[i].id = s.parent_stream_id

RECURSIVE streamNode(_, _)
streamNode(streams, s) ==
    LET kids == SelectSeq(streams, LAMBDA c : c.parent_stream_id = s.id)
    IN  [id |-> s.id,
         parent_stream_id |-> s.parent_stream_id,
         status |-> s.status,
         created_at |-> s.created_at,
         position |-> s.position,
         children |-> sortChildren([i \in 1..Len(kids) |-> streamNode(streams, kids[i])]),
         collapsed |-> <<>>]

buildStreamTree(streams) ==
    LET roots == SelectSeq(streams, LAMBDA s : ~hasParentIn(streams, s))
    IN  sortChildren([i \in 1..Len(roots) |-> streamNode(streams, roots[i])])

-----------------------------------------------------------------------------
(***************************************************************************)
(* lib/utils: focus mode helpers                                           *)
(***************************************************************************)

RECURSIVE countAllNodes(_)
countAllNodes(nodes) ==
    IF nodes = <<>> THEN 0
    ELSE 1 + countAllNodes(Head(nodes).children) + countAllNodes(Tail(nodes))

\* A variant that forgets the descendants of the collapsed nodes.
collectAllIdsShallow(nodes) == [i \in 1..Len(nodes) |-> nodes[i].id]

RECURSIVE collectAllIds(_)
collectAllIds(nodes) ==
    IF nodes = <<>> THEN <<>>
    ELSE <<Head(nodes).id>> \o collectAllIds(Head(nodes).children)
                            \o collectAllIds(Tail(nodes))

\* A variant that hands back a lone placeholder instead of wrapping it again.
createCollapsedPlaceholderKept(nodes, parentId) ==
    IF Len(nodes) = 1 /\ nodes[1].collapsed # <<>>
    THEN nodes[1]
    ELSE LET count == countAllNodes(nodes)
             originalIds == collectAllIds(nodes)
         IN  [id |-> "collapsed-" \o originalIds[1],
              parent_stream_id |-> parentId,
              status |-> "backlog",
              created_at |-> 0,
              position |-> <<>>,
              children |-> <<>>,
              collapsed |-> <<[count |-> count, originalIds |-> originalIds]>>]

createCollapsedPlaceholder(nodes, parentId) ==
    LET count == countAllNodes(nodes)
        originalIds == collectAllIds(nodes)
        first == IF originalIds # <<>> /\ originalIds[1] # null
                 THEN originalIds[1] ELSE "root"
    IN  [id |-> "collapsed-" \o first,
         parent_stream_id |-> parentId,
         status |-> "backlog",
         created_at |-> 0,
         position |-> <<>>,
         children |-> <<>>,
         collapsed |-> <<[count |-> count, originalIds |-> originalIds]>>]

\* The chain of ids from a root to targetId, or <<>> (null) when not found.
RECURSIVE findAncestorChain(_, _, _)
findAncestorChain(nodes, targetId, path) ==
    IF nodes = <<>> THEN <<>>
    ELSE LET node == Head(nodes)
         IN  IF node.id = targetId THEN path \o <<node.id>>
             ELSE LET found == findAncestorChain(node.children, targetId,
                                                 path \o <<node.id>>)
                  IN  IF found # <<>> THEN found
                      ELSE findAncestorChain(Tail(nodes), targetId, path)

\* A variant that filters the children of the focused node like those of
\* its ancestors.
RECURSIVE walkLevelFiltered(_, _, _, _)
walkLevelFiltered(nodes, parentId, ancestorSet, focusedStreamId) ==
    LET onPath  == SelectSeq(nodes, LAMBDA n : n.id \in ancestorSet)
        offPath == SelectSeq(nodes, LAMBDA n : n.id \notin ancestorSet)
        kept == [i \in 1..Len(onPath) |->
                   [onPath[i] EXCEPT !.children =
                       walkLevelFiltered(onPath[i].children, onPath[i].id,
                                         ancestorSet, focusedStreamId)]]
    IN  IF offPath # <<>>
        THEN kept \o <<createCollapsedPlaceholder(offPath, parentId)>>
        ELSE kept

RECURSIVE walkLevel(_, _, _, _)
walkLevel(nodes, parentId, ancestorSet, focusedStreamId) ==
    LET onPath  == SelectSeq(nodes, LAMBDA n : n.id \in ancestorSet)
        offPath == SelectSeq(nodes, LAMBDA n : n.id \notin ancestorSet)
        kept == [i \in 1..Len(onPath) |->
                   IF onPath[i].id = focusedStreamId
                   THEN onPath[i]
                   ELSE [onPath[i] EXCEPT !.children =
                           walkLevel(onPath[i].children, onPath[i].id,
                                     ancestorSet, focusedStreamId)]]
    IN  IF offPath # <<>>
        THEN kept \o <<createCollapsedPlaceholder(offPath, parentId)>>
        ELSE kept

buildFocusedTree(tree, focusedStreamId) ==
    LET chain == findAncestorChain(tree, focusedStreamId, <<>>)
    IN  IF chain = <<>> THEN tree
        ELSE walkLevel(tree, null, Range(chain), focusedStreamId)

-----------------------------------------------------------------------------
(***************************************************************************)
(* hooks/useVisualization: calculateTreeLayout                             *)
(***************************************************************************)

nodeWidth == 320
nodeHeight == 100
horizontalSpacing == 60
verticalSpacing == 40
padding == 40

\* nodes.find((n) => n.id === id): the first node of that id, or <<>>.
findNode(nodes, id) ==
    LET hits == SelectSeq(nodes, LAMBDA n : n.id = id)
    IN  IF hits = <<>> THEN <<>> ELSE <<hits[1]>>

\* nodes.find(...)?.y || y
\* A variant that never finds the child: the parent keeps the y of its own
\* slot.
childYOwn(nodes, id, y) == y

childY(nodes, id, y) ==
    LET hit == findNode(nodes, id)
    IN  IF hit # <<>> /\ hit[1].y # 0 THEN hit[1].y ELSE y

\* processNode with the nodes pushed so far: the nodes after the call and the
\* value it returns (the next free leaf slot).  processEach is a forEach over
\* nodes that threads the running offset through processNode.
RECURSIVE processNode(_, _, _, _)
RECURSIVE processEach(_, _, _, _, _)

\* A variant in which a leaf does not take a slot: it returns siblingIndex.
processNodeStacked(acc, node, depth, siblingIndex) ==
    LET x  == depth * (nodeWidth + horizontalSpacing) + padding
        y0 == siblingIndex * (nodeHeight + verticalSpacing) + padding
        n  == Len(node.children)
        done == processEach(acc, node.children, 1, depth + 1, siblingIndex)
        y  == IF n > 0
              THEN (childY(done.nodes, node.children[1].id, y0)
                    + childY(done.nodes, node.children[n].id, y0)) \div 2
              ELSE y0
        treeNode == [id |-> node.id, x |-> x, y |-> y,
                     width |-> nodeWidth, height |-> nodeHeight,
                     stream |-> node, parentId |-> node.parent_stream_id]
    IN  [nodes |-> Append(done.nodes, treeNode),
         next  |-> IF n > 0 THEN done.next ELSE siblingIndex]

processEach(acc, nodes, i, depth, offset) ==
    IF i > Len(nodes) THEN [nodes |-> acc, next |-> offset]
    ELSE LET r == processNode(acc, nodes[i], depth, offset)
         IN  processEach(r.nodes, nodes, i + 1, depth, r.next)

processNode(acc, node, depth, siblingIndex) ==
    LET x  == depth * (nodeWidth + horizontalSpacing) + padding
        y0 == siblingIndex * (nodeHeight + verticalSpacing) + padding
        n  == Len(node.children)
        done == processEach(acc, node.children, 1, depth + 1, siblingIndex)
        y  == IF n > 0
              THEN (childY(done.nodes, node.children[1].id, y0)
                    + childY(done.nodes, node.children[n].id, y0)) \div 2
              ELSE y0
        treeNode == [id |-> node.id, x |-> x, y |-> y,
                     width |-> nodeWidth, height |-> nodeHeight,
                     stream |-> node, parentId |-> node.parent_stream_id]
    IN  [nodes |-> Append(done.nodes, treeNode),
         next  |-> IF n > 0 THEN done.next ELSE siblingIndex + 1]

\* The links pushed by the pass over the positioned nodes, then made unique
\* by the key sourceId-targetId.
\* A variant that links every node with a parent id, found or not.
layoutLinksUnchecked(nodes) ==
    LET withParent == SelectSeq(nodes, LAMBDA n : n.parentId # null)
    IN  [i \in 1..Len(withParent) |->
           [sourceId |-> withParent[i].parentId, targetId |-> withParent[i].id]]

layoutLinks(nodes) ==
    LET withParent == SelectSeq(nodes, LAMBDA n :
                         n.parentId # null /\ findNode(nodes, n.parentId) # <<>>)
        all == [i \in 1..Len(withParent) |->
                  [sourceId |-> withParent[i].parentId,
                   targetId |-> withParent[i].id]]
        firstAt(i) == \A j \in 1..(i - 1) : all[j] # all[i]
        idx == {i \in 1..Len(all) : firstAt(i)}
        RECURSIVE pick(_)
        pick(i) == IF i > Len(all) THEN <<>>
                   ELSE (IF i \in idx THEN <<all[i]>> ELSE <<>>) \o pick(i + 1)
    IN  pick(1)

\* A variant that starts the roots at depth 1.
calculateTreeLayoutIndented(tree) ==
    LET nodes == processEach(<<>>, tree, 1, 1, 0).nodes
        maxX == IF nodes = <<>> THEN 0
                ELSE CHOOSE m \in {nodes[i].x + nodeWidth : i \in 1..Len(nodes)} :
                       \A i \in 1..Len(nodes) : nodes[i].x + nodeWidth <= m
        maxY == IF nodes = <<>> THEN 0
                ELSE CHOOSE m \in {nodes[i].y + nodeHeight : i \in 1..Len(nodes)} :
                       \A i \in 1..Len(nodes) : nodes[i].y + nodeHeight <= m
    IN  [nodes |-> nodes, links |-> layoutLinks(nodes),
         width |-> maxX + padding, height |-> maxY + padding]

\* A variant whose bounding box leaves the padding out.
calculateTreeLayoutBare(tree) ==
    LET nodes == processEach(<<>>, tree, 1, 0, 0).nodes
        maxX == IF nodes = <<>> THEN 0
                ELSE CHOOSE m \in {nodes[i].x + nodeWidth : i \in 1..Len(nodes)} :
                       \A i \in 1..Len(nodes) : nodes[i].x + nodeWidth <= m
        maxY == IF nodes = <<>> THEN 0
                ELSE CHOOSE m \in {nodes[i].y + nodeHeight : i \in 1..Len(nodes)} :
                       \A i \in 1..Len(nodes) : nodes[i].y + nodeHeight <= m
    IN  [nodes |-> nodes, links |-> layoutLinks(nodes),
         width |-> maxX, height |-> maxY]

calculateTreeLayout(tree) ==
    LET nodes == processEach(<<>>, tree, 1, 0, 0).nodes
        maxX == IF nodes = <<>> THEN 0
                ELSE CHOOSE m \in {nodes[i].x + nodeWidth : i \in 1..Len(nodes)} :
                       \A i \in 1..Len(nodes) : nodes[i].x + nodeWidth <= m
        maxY == IF nodes = <<>> THEN 0
                ELSE CHOOSE m \in {nodes[i].y + nodeHeight : i \in 1..Len(nodes)} :
                       \A i \in 1..Len(nodes) : nodes[i].y + nodeHeight <= m
    IN  [nodes |-> nodes, links |-> layoutLinks(nodes),
         width |-> maxX + padding, height |-> maxY + padding]

-----------------------------------------------------------------------------
(***************************************************************************)
(* The state of the page                                                   *)
(***************************************************************************)

VARIABLES
    store,            \* the streams collection of the project (Firestore)
    writes,           \* updateDoc requests sent and not yet settled
    snapshots,        \* snapshots raised for the listener, not yet delivered
    streams,          \* useStreams: the stream list last delivered
    focusedStreamId,  \* ProjectPage: focus state
    selectedStreamId, \* ProjectPage: selectedStream?.id
    pendingSlice,     \* ProjectPage: the child requested by a connection drag
    zoom,             \* useVisualization: zoom, in thousandths
    pan,              \* useVisualization: pan
    container,        \* the size of the container element
    anim,             \* the frame callback animateViewTo has scheduled (animRef)
    wheelAnim,        \* the frame callback handleWheelZoom has scheduled (wheelAnimRef)
    wheelZoomTarget,  \* wheelZoomTarget.current
    nodeOffsets,      \* StreamTree: nodeOffsets
    processedNodes,   \* processedNodesRef.current
    dragOffsetRef,    \* dragOffsetRef.current
    lastAutoPannedId, \* lastAutoPannedId.current
    autoPan,          \* the frame callbacks the auto-pan effect has scheduled
    dragLocked,       \* StreamTree: dragLocked
    localStorage,     \* localStorage.getItem('dragLocked')
    freePan,          \* StreamTree: freePan
    lastMousePos,     \* lastMousePos.current
    mouse,            \* where the pointer is over the svg (none: outside)
    gesture,          \* the d3 drag gesture in progress and its closure
    outcome,          \* what the last completed gesture did (its calls)
    log               \* history: which offsets drags have set, failed writes, edits

vars == <<store, writes, snapshots, streams, focusedStreamId, selectedStreamId,
          pendingSlice, zoom, pan, container, anim, wheelAnim, wheelZoomTarget,
          nodeOffsets, processedNodes, dragOffsetRef, lastAutoPannedId, autoPan,
          dragLocked, localStorage, freePan, lastMousePos, mouse, gesture,
          outcome, log>>

dataVars == <<store, writes, snapshots, streams>>
pageVars == <<focusedStreamId, selectedStreamId, pendingSlice>>
viewVars == <<zoom, pan, container, anim, wheelAnim, wheelZoomTarget>>
offsetVars == <<nodeOffsets, processedNodes, dragOffsetRef>>
autoPanVars == <<lastAutoPannedId, autoPan>>
lockVars == <<dragLocked, localStorage>>
freePanVars == <<freePan, lastMousePos, mouse>>
gestureVars == <<gesture, outcome, log>>

Point(x, y) == [x |-> x, y |-> y]

\* ProjectPage: the tree handed to StreamTree and its layout (both memoized).
streamTree == buildStreamTree(streams)

displayTreeOf(list, focused) ==
    IF focused # null
    THEN buildFocusedTree(buildStreamTree(list), focused)
    ELSE buildStreamTree(list)

displayTree == displayTreeOf(streams, focusedStreamId)

layout == calculateTreeLayout(displayTree)

\* ProjectPage renders StreamTree only while there are streams.
mounted == streams # <<>>

-----------------------------------------------------------------------------
(***************************************************************************)
(* Initial values shared by the specifications                             *)
(***************************************************************************)

NoAnim == [live |-> FALSE, startX |-> 0, startY |-> 0, startZoom |-> 0,
           targetX |-> 0, targetY |-> 0, endZoom |-> 0,
           duration |-> 0, elapsed |-> 0, after |-> FALSE]

NoGesture == [phase |-> "idle", node |-> null, nodeX |-> 0, nodeY |-> 0,
              zoom |-> 0, panX |-> 0, panY |-> 0,
              dragStartX |-> 0, dragStartY |-> 0,
              nodeStartX |-> 0, nodeStartY |-> 0, hasDragged |-> FALSE,
              releaseX |-> 0, releaseY |-> 0, path |-> <<>>]

NoOutcome == [kind |-> "none", node |-> null, nodeX |-> 0, nodeY |-> 0,
              zoom |-> 0, path |-> <<>>,
              lockedAtEnd |-> FALSE, selects |-> <<>>, updates |-> <<>>,
              creates |-> <<>>, before |-> <<>>, after |-> <<>>,
              panBefore |-> [x |-> 0, y |-> 0], panAfter |-> [x |-> 0, y |-> 0]]

\* The forests of 1..MaxStreams streams: a stream's parent was created before it.
ParentChoices(n) ==
    {p \in [1..n -> {null} \cup {Ids[j] : j \in 1..n}] :
        \A i \in 1..n : p[i] = null \/ \E j \in 1..(i - 1) : p[i] = Ids[j]}

StreamLists ==
    UNION {{[i \in 1..n |-> Stream(Ids[i], p[i], i, <<>>)] : p \in ParentChoices(n)} :
           n \in 1..MaxStreams}

IdsOf(list) == {list[i].id : i \in 1..Len(list)}

InitView ==
    /\ zoom = 1000
    /\ pan = Point(0, 0)
    /\ container = [width |-> 800, height |-> 600]
    /\ anim = NoAnim
    /\ wheelAnim = NoAnim
    /\ wheelZoomTarget = 1000

InitOffsets ==
    /\ nodeOffsets = <<>>
    /\ processedNodes = {}
    /\ dragOffsetRef = Point(0, 0)

NoLog == [dragged |-> {}, everDragged |-> {}, failed |-> FALSE,
          edits |-> 0, gestures |-> 0, transitions |-> 0,
          cleared |-> FALSE, unfocused |-> FALSE,
          selections |-> 0, autoPans |-> 0]

\* useState(false), useRef(null); the pointer starts outside the canvas.
InitFreePan ==
    /\ freePan = FALSE
    /\ lastMousePos = <<>>
    /\ mouse = <<>>

InitAutoPan ==
    /\ lastAutoPannedId = null
    /\ autoPan = <<>>

InitGesture ==
    /\ gesture = NoGesture
    /\ outcome = NoOutcome
    /\ log = NoLog

-----------------------------------------------------------------------------
(***************************************************************************)
(* StreamTree: the offsets and their seeding from the saved positions      *)
(***************************************************************************)

\* nodeOffsets[id] || { x: 0, y: 0 }
offsetOf(offsets, id) ==
    IF id \in DOMAIN offsets THEN offsets[id] ELSE Point(0, 0)

\* { ...prev, [id]: off }
withOffset(offsets, id, off) ==
    [i \in DOMAIN offsets \cup {id} |-> IF i = id THEN off ELSE offsets[i]]

\* The traversal of getInitialOffsets: every node, parents before children.
RECURSIVE flattenTree(_)
flattenTree(nodes) ==
    IF nodes = <<>> THEN <<>>
    ELSE <<Head(nodes)>> \o flattenTree(Head(nodes).children)
                         \o flattenTree(Tail(nodes))

\* The offsets of the nodes that have a saved position and a layout node.
getInitialOffsets(tree, nodes) ==
    LET flat == flattenTree(tree)
        saved == {i \in 1..Len(flat) :
                     /\ flat[i].position # <<>>
                     /\ findNode(nodes, flat[i].id) # <<>>}
    IN  [id \in {flat[i].id : i \in saved} |->
            LET i == CHOOSE k \in saved :
                        /\ flat[k].id = id
                        /\ \A j \in saved : flat[j].id = id => j <= k
                layoutNode == findNode(nodes, id)[1]
            IN  Point(flat[i].position[1] - layoutNode.x,
                      flat[i].position[2] - layoutNode.y)]

\* A variant of the seeding effect that does not skip the processed ids.
seedOffsetsAlways(tree, nodes, offsets, processed) ==
    IF nodes = <<>> THEN [offsets |-> offsets, processed |-> processed]
    ELSE LET newOffsets == getInitialOffsets(tree, nodes)
             add == DOMAIN newOffsets
         IN  [offsets |-> [i \in DOMAIN offsets \cup add |->
                             IF i \in add THEN newOffsets[i] ELSE offsets[i]],
              processed |-> processed \cup add]

\* The seeding effect, run when layout.nodes or getInitialOffsets changes:
\* the offsets and the processed ids it leaves.
seedOffsets(tree, nodes, offsets, processed) ==
    IF nodes = <<>> THEN [offsets |-> offsets, processed |-> processed]
    ELSE LET newOffsets == getInitialOffsets(tree, nodes)
             add == DOMAIN newOffsets \ processed
         IN  [offsets |-> [i \in DOMAIN offsets \cup add |->
                             IF i \in add THEN newOffsets[i] ELSE offsets[i]],
              processed |-> processed \cup add]

\* The seeding effect after a render of the given streams and focus.
seededAfterRender(list, focused, offsets, processed) ==
    LET tree == displayTreeOf(list, focused)
    IN  seedOffsets(tree, calculateTreeLayout(tree).nodes, offsets, processed)

-----------------------------------------------------------------------------
(***************************************************************************)
(* StreamTree: the auto-pan effect                                         *)
(***************************************************************************)

\* cancelAnimationFrame(rafId) of the effect's cleanup: rafId is the outer of
\* the two nested requests, so a callback whose outer frame has run stays.
autoPanCleanup(queue) == SelectSeq(queue, LAMBDA c : c.stage # 1)

\* A variant of the effect without the lastAutoPannedId test.
autoPanEffectAlways(selected, tree, nodes, last, queue) ==
    IF selected = null THEN [last |-> last, queue |-> autoPanCleanup(queue)]
    ELSE LET hit == findNode(nodes, selected)
         IN  [last |-> selected,
              queue |-> IF hit = <<>> THEN autoPanCleanup(queue)
                        ELSE Append(autoPanCleanup(queue),
                                    [id |-> selected, node |-> hit[1], stage |-> 1,
                                     saved |-> getInitialOffsets(tree, nodes)])]

\* One run of the effect (its dependencies having changed), after the
\* cleanup of the previous run: the callback it schedules holds the layout
\* node and getInitialOffsets of this render.
autoPanEffect(selected, tree, nodes, last, queue) ==
    IF selected = null \/ last = selected
    THEN [last |-> last, queue |-> autoPanCleanup(queue)]
    ELSE LET hit == findNode(nodes, selected)
         IN  [last |-> selected,
              queue |-> IF hit = <<>> THEN autoPanCleanup(queue)
                        ELSE Append(autoPanCleanup(queue),
                                    [id |-> selected, node |-> hit[1], stage |-> 1,
                                     saved |-> getInitialOffsets(tree, nodes)])]

\* The effect after the renders of one handler: the render with what the
\* handler set and, when an effect of ProjectPage changed the selection
\* again, the render after that.
autoPanAfterRender(list, focus, selectedSet, selectedFinal, depsChanged, last, queue) ==
    LET tree == displayTreeOf(list, focus)
        nodes == calculateTreeLayout(tree).nodes
        first == IF depsChanged
                 THEN autoPanEffect(selectedSet, tree, nodes, last, queue)
                 ELSE [last |-> last, queue |-> queue]
    IN  IF selectedFinal # selectedSet
        THEN autoPanEffect(selectedFinal, tree, nodes, first.last, first.queue)
        ELSE first

\* The history of selections: a change of the selected id to another stream.
selectionLogged(l, old, new) ==
    IF new # null /\ new # old THEN [l EXCEPT !.selections = @ + 1] ELSE l

-----------------------------------------------------------------------------
(***************************************************************************)
(* ProjectPage: focus and selection                                        *)
(***************************************************************************)

\* The clear-selection effect's isCollapsed(displayTree).
RECURSIVE isCollapsed(_, _)
isCollapsed(nodes, selectedId) ==
    IF nodes = <<>> THEN FALSE
    ELSE LET node == Head(nodes)
         IN  \/ /\ node.collapsed # <<>>
                /\ selectedId \in Range(node.collapsed[1].originalIds)
             \/ isCollapsed(node.children, selectedId)
             \/ isCollapsed(Tail(nodes), selectedId)

\* A variant of the clear-selection effect that never fires.
selectionKept(list, focused, selected) == selected

\* A variant of the clear-focus effect that never fires.
focusKept(list, focused) == focused

\* The two effects of ProjectPage, run after a render with the given state:
\* focus is cleared when the focused stream is gone, the selection when the
\* selected stream is inside a placeholder.
focusAfterEffects(list, focused) ==
    IF focused # null /\ focused \notin IdsOf(list) THEN null ELSE focused

selectionAfterEffects(list, focused, selected) ==
    IF /\ selected # null
       /\ focused # null
       /\ isCollapsed(buildFocusedTree(buildStreamTree(list), focused), selected)
    THEN null
    ELSE selected

\* The history of the two effects: whether one has fired.
effectsLogged(l, focusSet, focus, selected, selection) ==
    [l EXCEPT !.unfocused = @ \/ (focusSet # null /\ focus = null),
              !.cleared = @ \/ (selected # null /\ selection = null)]

\* onFocusStream={setFocusedStreamId}
FocusStream(id) ==
    /\ mounted
    /\ id \in IdsOf(streams)
    /\ focusedStreamId # id
    /\ focusedStreamId' = focusAfterEffects(streams, id)
    /\ selectedStreamId' = selectionAfterEffects(streams, id, selectedStreamId)
    /\ \E seeded \in {seededAfterRender(streams, id, nodeOffsets, processedNodes)} :
          /\ nodeOffsets' = seeded.offsets
          /\ processedNodes' = seeded.processed
    /\ log' = effectsLogged(log, id, focusedStreamId', selectedStreamId,
                            selectedStreamId')
    /\ \E r \in {autoPanAfterRender(streams, focusedStreamId', selectedStreamId,
                                     selectedStreamId', TRUE,
                                     lastAutoPannedId, autoPan)} :
          /\ lastAutoPannedId' = r.last
          /\ autoPan' = r.queue
    /\ UNCHANGED <<dataVars, pendingSlice, viewVars, dragOffsetRef, lockVars, freePanVars,
                   gesture, outcome>>

\* onExitFocus={() => setFocusedStreamId(null)}
ExitFocus ==
    /\ mounted
    /\ focusedStreamId # null
    /\ focusedStreamId' = null
    /\ \E seeded \in {seededAfterRender(streams, null, nodeOffsets, processedNodes)} :
          /\ nodeOffsets' = seeded.offsets
          /\ processedNodes' = seeded.processed
    /\ \E r \in {autoPanAfterRender(streams, null, selectedStreamId,
                                     selectedStreamId, TRUE,
                                     lastAutoPannedId, autoPan)} :
          /\ lastAutoPannedId' = r.last
          /\ autoPan' = r.queue
    /\ UNCHANGED <<dataVars, selectedStreamId, pendingSlice, viewVars, dragOffsetRef,
                   lockVars, freePanVars, gestureVars>>

\* handleCloseDetail
CloseDetail ==
    /\ selectedStreamId # null
    /\ selectedStreamId' = null
    /\ autoPan' = IF mounted THEN autoPanCleanup(autoPan) ELSE autoPan
    /\ UNCHANGED <<dataVars, focusedStreamId, pendingSlice, viewVars, offsetVars,
                   lockVars, freePanVars, gestureVars, lastAutoPannedId>>

\* handleSelectStream, called with a stream of the displayed tree.
SelectStream(id) ==
    /\ mounted
    /\ selectedStreamId # id
    /\ id \in IdsOf(streams)
    /\ \E nodes \in {layout.nodes} : \E i \in 1..Len(nodes) :
          nodes[i].id = id /\ nodes[i].stream.collapsed = <<>>
    /\ selectedStreamId' = selectionAfterEffects(streams, focusedStreamId, id)
    /\ \E r \in {autoPanAfterRender(streams, focusedStreamId, id,
                                     selectedStreamId', TRUE,
                                     lastAutoPannedId, autoPan)} :
          /\ lastAutoPannedId' = r.last
          /\ autoPan' = r.queue
    /\ log' = selectionLogged(log, selectedStreamId, id)
    /\ UNCHANGED <<dataVars, focusedStreamId, pendingSlice, viewVars, offsetVars,
                   lockVars, freePanVars, gesture, outcome>>

InitFocus ==
    /\ store \in StreamLists
    /\ streams = store
    /\ writes = <<>>
    /\ snapshots = <<>>
    /\ focusedStreamId = null
    /\ selectedStreamId = null
    /\ pendingSlice = <<>>
    /\ dragLocked = FALSE
    /\ localStorage = null
    /\ InitView /\ InitOffsets /\ InitGesture /\ InitAutoPan /\ InitFreePan

NextFocus ==
    \/ \E id \in Range(Ids) : FocusStream(id)
    \/ ExitFocus

SpecFocus == InitFocus /\ [][NextFocus]_vars

-----------------------------------------------------------------------------
(***************************************************************************)
(* StreamTree: the node drag gesture (nodeDrag) and the position lock      *)
(***************************************************************************)

\* Math.abs(dx) > 3
dragThreshold == 3
\* focusYOverrides: mainY and collapsedOffsetY
mainY == 100
collapsedOffsetY == 120

\* v / zoom, zoom being kept in thousandths.
divZoom(v, z) == (v * 1000) \div z

\* A variant that places every node at its base position.
getAdjustedPositionBase(focused, node, offsets) == Point(node.x, node.y)

getAdjustedPosition(focused, node, offsets) ==
    IF focused # null
    THEN Point(node.x, IF node.stream.collapsed # <<>>
                       THEN mainY + collapsedOffsetY ELSE mainY)
    ELSE Point(node.x + offsetOf(offsets, node.id).x,
               node.y + offsetOf(offsets, node.id).y)

\* A variant of the threshold test that counts a displacement of exactly 3.
movedEnoughInclusive(rawX, rawY, z) ==
    \/ Abs(rawX) * 1000 >= dragThreshold * z
    \/ Abs(rawY) * 1000 >= dragThreshold * z

\* Math.abs(dx) > 3 || Math.abs(dy) > 3 for dx = rawX / zoom, dy = rawY / zoom,
\* compared exactly.
movedEnough(rawX, rawY, z) ==
    \/ Abs(rawX) * 1000 > dragThreshold * z
    \/ Abs(rawY) * 1000 > dragThreshold * z

\* The pointer path of the gesture so far, with the lock read at each move.
moveLogged(g, rawX, rawY, locked) ==
    [g EXCEPT !.path = Append(@, [dx |-> rawX, dy |-> rawY, locked |-> locked])]

\* A variant of the 'drag' handler that forgets an earlier crossing of the
\* threshold.
nodeDragMovedForgetful(g, locked, ref, ex, ey) ==
    LET rawX == ex - g.dragStartX
        rawY == ey - g.dragStartY
        g1 == moveLogged(g, rawX, rawY, locked)
    IN  IF locked THEN [gesture |-> g1, ref |-> ref]
        ELSE IF ~movedEnough(rawX, rawY, g.zoom)
             THEN [gesture |-> [g1 EXCEPT !.hasDragged = FALSE], ref |-> ref]
             ELSE [gesture |-> [g1 EXCEPT !.hasDragged = TRUE],
                   ref |-> Point(g.nodeStartX + divZoom(rawX, g.zoom) - g.nodeX,
                                 g.nodeStartY + divZoom(rawY, g.zoom) - g.nodeY)]

\* A variant of the 'drag' handler that does not read the lock.
nodeDragMovedUnlocked(g, locked, ref, ex, ey) ==
    LET rawX == ex - g.dragStartX
        rawY == ey - g.dragStartY
        g1 == moveLogged(g, rawX, rawY, locked)
    IN  IF ~(g.hasDragged \/ movedEnough(rawX, rawY, g.zoom))
        THEN [gesture |-> g1, ref |-> ref]
        ELSE [gesture |-> [g1 EXCEPT !.hasDragged = TRUE],
              ref |-> Point(g.nodeStartX + divZoom(rawX, g.zoom) - g.nodeX,
                            g.nodeStartY + divZoom(rawY, g.zoom) - g.nodeY)]

\* The 'drag' handler of nodeDrag for a pointer event at (ex, ey): the closure
\* of the gesture and dragOffsetRef.current after it.
nodeDragMoved(g, locked, ref, ex, ey) ==
    LET rawX == ex - g.dragStartX
        rawY == ey - g.dragStartY
        g1 == moveLogged(g, rawX, rawY, locked)
    IN  IF locked THEN [gesture |-> g1, ref |-> ref]
        ELSE IF ~(g.hasDragged \/ movedEnough(rawX, rawY, g.zoom))
             THEN [gesture |-> g1, ref |-> ref]
             ELSE [gesture |-> [g1 EXCEPT !.hasDragged = TRUE],
                   ref |-> Point(g.nodeStartX + divZoom(rawX, g.zoom) - g.nodeX,
                                 g.nodeStartY + divZoom(rawY, g.zoom) - g.nodeY)]

\* Bounds of the gestures of the model: the gestures of a run of the canvas
\* specification and the moves of each, the drags of a run of the
\* synchronisation specification.
MaxGestures == 1
MaxMoves == 2
MaxDrags == 2

\* Where the pointer goes down, and where a move event finds it, relative to
\* that point.
PointerStarts == {Point(10, 20)}
Displacements == {Point(3, 0), Point(0, -4), Point(10, 0)}

\* nodeDrag 'start' on a real node of the rendered tree.
NodeDragStart(id, p) ==
    /\ mounted
    /\ gesture.phase = "idle"
    /\ \E nodes \in {layout.nodes} : \E i \in 1..Len(nodes) :
          /\ nodes[i].id = id
          /\ nodes[i].stream.collapsed = <<>>
          /\ \E adj \in {getAdjustedPosition(focusedStreamId, nodes[i], nodeOffsets)} :
                gesture' = [NoGesture EXCEPT
                               !.phase = "node", !.node = id,
                               !.nodeX = nodes[i].x, !.nodeY = nodes[i].y,
                               !.zoom = zoom, !.panX = pan.x, !.panY = pan.y,
                               !.dragStartX = p.x, !.dragStartY = p.y,
                               !.nodeStartX = adj.x, !.nodeStartY = adj.y]
    /\ log' = [log EXCEPT !.gestures = @ + 1]
    /\ outcome' = NoOutcome
    /\ UNCHANGED <<dataVars, pageVars, viewVars, offsetVars, lockVars, freePanVars,
                   autoPanVars>>

\* nodeDrag 'drag'
NodeDragMove(d) ==
    /\ gesture.phase = "node"
    /\ \E r \in {nodeDragMoved(gesture, dragLocked, dragOffsetRef,
                               gesture.dragStartX + d.x, gesture.dragStartY + d.y)} :
          /\ gesture' = r.gesture
          /\ dragOffsetRef' = r.ref
    /\ UNCHANGED <<dataVars, pageVars, viewVars, nodeOffsets, processedNodes,
                   lockVars, freePanVars, outcome, log,
                   autoPanVars>>

\* nodeDrag 'end': commit the drag, or select the node.
NodeDragEnd ==
    /\ gesture.phase = "node"
    /\ IF gesture.hasDragged
       THEN /\ nodeOffsets' = withOffset(nodeOffsets, gesture.node, dragOffsetRef)
            /\ writes' = Append(writes, [id |-> gesture.node,
                                         x |-> gesture.nodeX + dragOffsetRef.x,
                                         y |-> gesture.nodeY + dragOffsetRef.y])
            /\ log' = [log EXCEPT !.dragged = @ \cup {gesture.node},
                                  !.everDragged = @ \cup {gesture.node}]
            /\ UNCHANGED <<selectedStreamId, autoPanVars, freePan, lastMousePos>>
       ELSE /\ freePan' = FALSE
            /\ lastMousePos' = <<>>
            /\ selectedStreamId' =
                  selectionAfterEffects(streams, focusedStreamId, gesture.node)
            /\ \E r \in {autoPanAfterRender(streams, focusedStreamId, gesture.node,
                                             selectedStreamId',
                                             gesture.node # selectedStreamId,
                                             lastAutoPannedId, autoPan)} :
                  /\ lastAutoPannedId' = r.last
                  /\ autoPan' = r.queue
            /\ log' = selectionLogged(log, selectedStreamId, gesture.node)
            /\ UNCHANGED <<nodeOffsets, writes>>
    /\ outcome' = [NoOutcome EXCEPT
                      !.kind = "node", !.node = gesture.node,
                      !.nodeX = gesture.nodeX, !.nodeY = gesture.nodeY,
                      !.zoom = gesture.zoom, !.path = gesture.path,
                      !.lockedAtEnd = dragLocked,
                      !.selects = IF gesture.hasDragged THEN <<>>
                                  ELSE <<gesture.node>>,
                      !.updates = SubSeq(writes', Len(writes) + 1, Len(writes')),
                      !.before = nodeOffsets, !.after = nodeOffsets']
    /\ gesture' = NoGesture
    /\ UNCHANGED <<store, snapshots, streams, focusedStreamId, pendingSlice,
                   viewVars, processedNodes, dragOffsetRef, lockVars, mouse>>

\* The lock button: setDragLocked with localStorage.setItem.
ToggleLock ==
    /\ mounted
    /\ dragLocked' = ~dragLocked
    /\ localStorage' = IF ~dragLocked THEN "true" ELSE "false"
    /\ UNCHANGED <<dataVars, pageVars, viewVars, offsetVars, gestureVars,
                   autoPanVars, freePanVars>>

-----------------------------------------------------------------------------
(***************************************************************************)
(* StreamTree: canvas drag and the connection handle                       *)
(***************************************************************************)

\* Bound of the pan the canvas drags of the model reach.
MaxPan == 5

CanvasDeltas == {Point(5, -5)}

\* canvasDrag: handleCanvasDrag adds the event's delta to pan.
CanvasDrag(d) ==
    /\ mounted
    /\ gesture.phase = "idle"
    /\ Abs(pan.x + d.x) <= MaxPan
    /\ Abs(pan.y + d.y) <= MaxPan
    /\ pan' = Point(pan.x + d.x, pan.y + d.y)
    /\ outcome' = [NoOutcome EXCEPT
                      !.kind = "canvas", !.zoom = zoom, !.lockedAtEnd = dragLocked,
                      !.path = <<[dx |-> d.x, dy |-> d.y, locked |-> dragLocked]>>,
                      !.before = nodeOffsets, !.after = nodeOffsets,
                      !.panBefore = pan, !.panAfter = pan']
    /\ UNCHANGED <<dataVars, pageVars, zoom, container, anim, wheelAnim,
                   wheelZoomTarget, offsetVars, lockVars, freePanVars, gesture, log,
                   autoPanVars>>

\* placeholderHeight
placeholderHeight == 80

\* The 'drag' handler of handleDrag for a pointer at (cx, cy) from the corner
\* of the svg: the release position it stores.
handleReleasePosition(g, cx, cy) ==
    Point(divZoom(cx - g.panX, g.zoom),
          divZoom(cy - g.panY, g.zoom) - placeholderHeight \div 2)

\* Where a move of the connection drag finds the pointer.
HandlePointers == {Point(405, 90)}

\* handleDrag 'start', on the handle of a real node that is not done.
HandleDragStart(id) ==
    /\ mounted
    /\ gesture.phase = "idle"
    /\ \E nodes \in {layout.nodes} : \E i \in 1..Len(nodes) :
          /\ nodes[i].id = id
          /\ nodes[i].stream.collapsed = <<>>
          /\ nodes[i].stream.status # "done"
          /\ gesture' = [NoGesture EXCEPT
                            !.phase = "handle", !.node = id,
                            !.nodeX = nodes[i].x, !.nodeY = nodes[i].y,
                            !.zoom = zoom, !.panX = pan.x, !.panY = pan.y]
    /\ log' = [log EXCEPT !.gestures = @ + 1]
    /\ outcome' = NoOutcome
    /\ UNCHANGED <<dataVars, pageVars, viewVars, offsetVars, lockVars, freePanVars,
                   autoPanVars>>

\* handleDrag 'drag'
HandleDragMove(c) ==
    /\ gesture.phase = "handle"
    /\ \E r \in {handleReleasePosition(gesture, c.x, c.y)} :
          gesture' = [moveLogged(gesture, c.x, c.y, dragLocked) EXCEPT
                         !.releaseX = r.x, !.releaseY = r.y]
    /\ UNCHANGED <<dataVars, pageVars, viewVars, offsetVars, lockVars, freePanVars, outcome, log,
                   autoPanVars>>

\* handleDrag 'end': onCreateChildSlice(node.id, releasePosition), which is
\* handleCreateChildSlice.
HandleDragEnd ==
    /\ gesture.phase = "handle"
    /\ pendingSlice' = <<[parentId |-> gesture.node,
                          position |-> Point(gesture.releaseX, gesture.releaseY)]>>
    /\ outcome' = [NoOutcome EXCEPT
                      !.kind = "handle", !.node = gesture.node,
                      !.nodeX = gesture.nodeX, !.nodeY = gesture.nodeY,
                      !.zoom = gesture.zoom, !.path = gesture.path,
                      !.lockedAtEnd = dragLocked,
                      !.creates = pendingSlice',
                      !.before = nodeOffsets, !.after = nodeOffsets,
                      !.panBefore = Point(gesture.panX, gesture.panY),
                      !.panAfter = pan]
    /\ gesture' = NoGesture
    /\ UNCHANGED <<dataVars, focusedStreamId, selectedStreamId, viewVars,
                   offsetVars, lockVars, freePanVars, log,
                   autoPanVars>>

\* The add-stream modal is closed: the pending slice is dropped.
CloseAddModal ==
    /\ pendingSlice # <<>>
    /\ pendingSlice' = <<>>
    /\ UNCHANGED <<dataVars, focusedStreamId, selectedStreamId, viewVars,
                   offsetVars, lockVars, freePanVars, gestureVars,
                   autoPanVars>>

-----------------------------------------------------------------------------
(***************************************************************************)
(* useStreams: the store, the position update and the snapshot listener    *)
(***************************************************************************)

\* Bound of the edits made by collaborators.
MaxEdits == 1

setPosition(list, id, pos) ==
    [i \in 1..Len(list) |->
        IF list[i].id = id THEN [list[i] EXCEPT !.position = pos] ELSE list[i]]

\* updateDoc of the oldest pending write reaches the store, which raises a
\* snapshot for the listener.
ApplyWrite ==
    /\ writes # <<>>
    /\ Head(writes).id \in IdsOf(store)
    /\ store' = setPosition(store, Head(writes).id,
                            <<Head(writes).x, Head(writes).y>>)
    /\ writes' = Tail(writes)
    /\ snapshots' = Append(snapshots, store')
    /\ UNCHANGED <<streams, pageVars, viewVars, offsetVars, lockVars, freePanVars, gestureVars,
                   autoPanVars>>

\* updateDoc rejects: the promise of handleUpdateStreamPosition is dropped.
FailWrite ==
    /\ writes # <<>>
    /\ writes' = Tail(writes)
    /\ log' = [log EXCEPT !.failed = TRUE]
    /\ UNCHANGED <<store, snapshots, streams, pageVars, viewVars, offsetVars,
                   lockVars, freePanVars, gesture, outcome,
                   autoPanVars>>

\* Positions a collaborator saves.
CollabPositions == {<<70, 80>>}

\* A collaborator moves a stream.
CollabMove(id, pos) ==
    /\ log.edits < MaxEdits
    /\ id \in IdsOf(store)
    /\ store' = setPosition(store, id, pos)
    /\ snapshots' = Append(snapshots, store')
    /\ log' = [log EXCEPT !.edits = @ + 1]
    /\ UNCHANGED <<writes, streams, pageVars, viewVars, offsetVars, lockVars, freePanVars,
                   gesture, outcome,
                   autoPanVars>>

\* A collaborator adds a child of the first stream: the new document has an
\* id younger than every stream of the project.
CollabAdd ==
    /\ log.edits < MaxEdits
    /\ store # <<>>
    /\ Len(store) < Len(Ids)
    /\ \E k \in {store[Len(store)].created_at + 1} :
          /\ k <= Len(Ids)
          /\ store' = Append(store, Stream(Ids[k], store[1].id, k, <<>>))
    /\ snapshots' = Append(snapshots, store')
    /\ log' = [log EXCEPT !.edits = @ + 1]
    /\ UNCHANGED <<writes, streams, pageVars, viewVars, offsetVars, lockVars, freePanVars,
                   gesture, outcome,
                   autoPanVars>>

\* A collaborator deletes a stream other than the first.
CollabDelete(id) ==
    /\ log.edits < MaxEdits
    /\ id \in IdsOf(store)
    /\ id # store[1].id
    /\ store' = SelectSeq(store, LAMBDA st : st.id # id)
    /\ snapshots' = Append(snapshots, store')
    /\ log' = [log EXCEPT !.edits = @ + 1]
    /\ UNCHANGED <<writes, streams, pageVars, viewVars, offsetVars, lockVars, freePanVars,
                   gesture, outcome,
                   autoPanVars>>

\* The onSnapshot callback with the oldest raised snapshot, the render that
\* follows and its effects: StreamTree mounts with the first streams (the lock
\* is read from localStorage), the offsets are seeded, ProjectPage clears a
\* stale focus or selection.
DeliverSnapshot ==
    /\ snapshots # <<>>
    /\ \E list \in {Head(snapshots)} :
       \E focus \in {focusAfterEffects(list, focusedStreamId)} :
       \E unmount \in {mounted /\ list = <<>>} :
       \E seeded \in {IF unmount THEN [offsets |-> <<>>, processed |-> {}]
                      ELSE seededAfterRender(list, focus, nodeOffsets,
                                             processedNodes)} :
          /\ streams' = list
          /\ focusedStreamId' = focus
          /\ selectedStreamId' = selectionAfterEffects(list, focus, selectedStreamId)
          /\ nodeOffsets' = seeded.offsets
          /\ processedNodes' = seeded.processed
          /\ dragLocked' = IF ~mounted /\ list # <<>>
                           THEN localStorage = "true" ELSE dragLocked
          /\ log' = [effectsLogged(log, focusedStreamId, focus, selectedStreamId,
                                   selectedStreamId')
                        EXCEPT !.dragged =
                        {id \in @ : offsetOf(seeded.offsets, id)
                                      = offsetOf(nodeOffsets, id)}]
          /\ \E r \in {IF unmount THEN [last |-> null, queue |-> <<>>]
                        ELSE autoPanAfterRender(list, focus, selectedStreamId,
                                                selectedStreamId', list # <<>>,
                                                lastAutoPannedId, autoPan)} :
                /\ lastAutoPannedId' = r.last
                /\ autoPan' = r.queue
          \* StreamTree unmounts with the last stream: its state is gone, the
          \* frame callbacks still scheduled set the state of a component that
          \* no longer exists, the gesture has lost its elements.
          /\ IF unmount
             THEN /\ zoom' = 1000
                  /\ pan' = Point(0, 0)
                  /\ wheelZoomTarget' = 1000
                  /\ anim' = NoAnim
                  /\ wheelAnim' = NoAnim
                  /\ dragOffsetRef' = Point(0, 0)
                  /\ gesture' = NoGesture
                  /\ freePan' = FALSE
                  /\ lastMousePos' = <<>>
                  /\ mouse' = <<>>
             ELSE UNCHANGED <<zoom, pan, wheelZoomTarget, anim, wheelAnim,
                             dragOffsetRef, gesture, freePanVars>>
    /\ snapshots' = Tail(snapshots)
    /\ UNCHANGED <<store, writes, pendingSlice, container, localStorage, outcome>>

\* The project as the page is opened: two streams, the first with a saved
\* position, the second done, the first snapshot on its way; the page may be
\* in focus mode, the zoom is one the zoom controls reach, the lock is as an
\* earlier visit left it.
InitDrag ==
    /\ store = <<Stream("a", null, 1, <<45, 45>>),
                 [Stream("b", "a", 2, <<>>) EXCEPT !.status = "done"]>>
    /\ streams = <<>>
    /\ writes = <<>>
    /\ snapshots = <<store>>
    /\ focusedStreamId \in {null, "a"}
    /\ selectedStreamId = null
    /\ pendingSlice = <<>>
    /\ dragLocked = FALSE
    /\ localStorage \in {null, "true"}
    /\ zoom \in {200, 1000, 3000}
    /\ pan = Point(0, 0)
    /\ container = [width |-> 800, height |-> 600]
    /\ anim = NoAnim
    /\ wheelAnim = NoAnim
    /\ wheelZoomTarget = zoom
    /\ InitOffsets /\ InitGesture /\ InitAutoPan /\ InitFreePan

\* The gestures of the user on the canvas, no write of theirs settling
\* meanwhile.
NextDrag ==
    \/ DeliverSnapshot
    \/ /\ log.gestures < MaxGestures
       /\ \E id \in IdsOf(streams), p \in PointerStarts : NodeDragStart(id, p)
    \/ /\ Len(gesture.path) < MaxMoves
       /\ \E d \in Displacements : NodeDragMove(d)
    \/ NodeDragEnd
    \/ ToggleLock
    \/ \E d \in CanvasDeltas : CanvasDrag(d)
    \/ /\ log.gestures < MaxGestures
       /\ \E id \in IdsOf(streams) : HandleDragStart(id)
    \/ /\ Len(gesture.path) < MaxMoves
       /\ \E c \in HandlePointers : HandleDragMove(c)
    \/ HandleDragEnd
    \/ CloseAddModal

SpecDrag == InitDrag /\ [][NextDrag]_vars

\* The same page at zoom 1 with the lock off; one of the two streams has a
\* saved position.
InitSync ==
    /\ store \in {<<Stream("a", null, 1, <<45, 45>>), Stream("b", "a", 2, <<>>)>>,
                  <<Stream("a", null, 1, <<>>), Stream("b", "a", 2, <<430, 45>>)>>}
    /\ streams = <<>>
    /\ writes = <<>>
    /\ snapshots = <<store>>
    /\ focusedStreamId = null
    /\ selectedStreamId = null
    /\ pendingSlice = <<>>
    /\ dragLocked = FALSE
    /\ localStorage = null
    /\ InitView /\ InitOffsets /\ InitGesture /\ InitAutoPan /\ InitFreePan

SyncDisplacements == {Point(4, 0)}

\* Node drags (each one move past the threshold), their writes, the edits of
\* collaborators and the snapshots.
NextSync ==
    \/ DeliverSnapshot
    \/ ApplyWrite
    \/ FailWrite
    \/ \E id \in IdsOf(store), pos \in CollabPositions : CollabMove(id, pos)
    \/ CollabAdd
    \/ \E id \in IdsOf(store) : CollabDelete(id)
    \/ /\ log.gestures < MaxDrags
       /\ \E id \in IdsOf(streams), p \in PointerStarts : NodeDragStart(id, p)
    \/ /\ ~gesture.hasDragged
       /\ \E d \in SyncDisplacements : NodeDragMove(d)
    \/ NodeDragEnd

SpecSync == InitSync /\ [][NextSync]_vars

-----------------------------------------------------------------------------
(***************************************************************************)
(* ProjectPage: focus and selection while the streams change               *)
(***************************************************************************)

\* setFocusedStreamId with the id of a stream that is not (or no longer) in
\* the list: the render shows the unfiltered tree and the clear-focus effect
\* resets the state.
FocusAbsent(id) ==
    /\ mounted
    /\ id \notin IdsOf(streams)
    /\ focusedStreamId' = focusAfterEffects(streams, id)
    /\ selectedStreamId' = selectionAfterEffects(streams, id, selectedStreamId)
    /\ \E seeded \in {seededAfterRender(streams, focusedStreamId', nodeOffsets,
                                         processedNodes)} :
          /\ nodeOffsets' = seeded.offsets
          /\ processedNodes' = seeded.processed
    /\ log' = effectsLogged(log, id, focusedStreamId', selectedStreamId,
                            selectedStreamId')
    /\ \E r \in {autoPanAfterRender(streams, focusedStreamId', selectedStreamId,
                                     selectedStreamId', focusedStreamId # null,
                                     lastAutoPannedId, autoPan)} :
          /\ lastAutoPannedId' = r.last
          /\ autoPan' = r.queue
    /\ UNCHANGED <<dataVars, pendingSlice, viewVars, dragOffsetRef, lockVars, freePanVars,
                   gesture, outcome>>

\* handleDeleteStream: deleteDoc of the selected stream (its children stay
\* and become roots), then setSelectedStream(null).
DeleteSelected ==
    /\ selectedStreamId # null
    /\ store' = SelectSeq(store, LAMBDA st : st.id # selectedStreamId)
    /\ snapshots' = IF store' # store THEN Append(snapshots, store') ELSE snapshots
    /\ selectedStreamId' = null
    /\ autoPan' = IF mounted THEN autoPanCleanup(autoPan) ELSE autoPan
    /\ UNCHANGED <<writes, streams, focusedStreamId, pendingSlice, viewVars,
                   offsetVars, lockVars, freePanVars, gestureVars, lastAutoPannedId>>

\* Bound of the selections made.
MaxSelections == 2

\* The project of the page: a stream a with the children b and c.
PageList ==
    <<Stream("a", null, 1, <<>>), Stream("b", "a", 2, <<>>),
      Stream("c", "a", 3, <<>>)>>

InitPage ==
    /\ store = PageList
    /\ streams = store
    /\ writes = <<>>
    /\ snapshots = <<>>
    /\ focusedStreamId = null
    /\ selectedStreamId = null
    /\ pendingSlice = <<>>
    /\ dragLocked = FALSE
    /\ localStorage = null
    /\ InitView /\ InitOffsets /\ InitGesture /\ InitAutoPan /\ InitFreePan

NextPage ==
    \/ \E id \in IdsOf(streams) : FocusStream(id)
    \/ \E id \in IdsOf(PageList) : FocusAbsent(id)
    \/ ExitFocus
    \/ /\ log.selections < MaxSelections
       /\ \E id \in IdsOf(streams) : SelectStream(id)
    \/ CloseDetail
    \/ /\ snapshots = <<>>
       /\ DeleteSelected
    \/ /\ snapshots = <<>>
       /\ \E id \in IdsOf(store) : CollabDelete(id)
    \/ DeliverSnapshot

SpecPage == InitPage /\ [][NextPage]_vars

\* A deeper project: a with the children b and c, and d under b; deleting a
\* or b leaves streams whose parent id refers to no existing stream.
DeepList ==
    <<Stream("a", null, 1, <<>>), Stream("b", "a", 2, <<>>),
      Stream("c", "a", 3, <<>>), Stream("d", "b", 4, <<>>)>>

InitDeep ==
    /\ store = DeepList
    /\ streams = store
    /\ writes = <<>>
    /\ snapshots = <<>>
    /\ focusedStreamId = null
    /\ selectedStreamId = null
    /\ pendingSlice = <<>>
    /\ dragLocked = FALSE
    /\ localStorage = null
    /\ InitView /\ InitOffsets /\ InitGesture /\ InitAutoPan /\ InitFreePan

SpecDeep == InitDeep /\ [][NextPage]_vars

-----------------------------------------------------------------------------
(***************************************************************************)
(* StreamTree: the viewport animations                                     *)
(***************************************************************************)

minZoom == 200
maxZoom == 3000
zoomStep == 150
viewDuration == 300
zoomDuration == 200
wheelDuration == 150
fitPadding == 60
boostBelow == 20
boostFactor == 8

\* ease = 1 - (1 - t)^3 for t = min(elapsed / duration, 1), in thousandths.
easeOutCubic(elapsed, duration) ==
    LET r == ((duration - Min(elapsed, duration)) * 1000) \div duration
    IN  1000 - (((r * r) \div 1000) * r) \div 1000

\* start + (target - start) * ease
eased(start, target, elapsed, duration) ==
    start + ((target - start) * easeOutCubic(elapsed, duration)) \div 1000

\* The frame callback animateViewTo schedules, after cancelAnimationFrame of
\* animRef.current only.
animateViewTo(targetX, targetY, targetZoom, duration, otherLive) ==
    [live |-> TRUE, startX |-> pan.x, startY |-> pan.y, startZoom |-> zoom,
     targetX |-> targetX, targetY |-> targetY, endZoom |-> targetZoom,
     duration |-> duration, elapsed |-> 0, after |-> otherLive]

\* A variant of the wheel target that is not held below the largest zoom.
wheelTargetUnclamped(target, deltaY) == Max(minZoom, target - deltaY)

\* Math.min(3, Math.max(0.2, wheelZoomTarget.current + delta)) for
\* delta = -deltaY * 0.001.
wheelTarget(target, deltaY) == Min(maxZoom, Max(minZoom, target - deltaY))

\* handleWheel: small deltas (trackpad pinch) are boosted.
boosted(deltaY) == IF Abs(deltaY) < boostBelow THEN -deltaY * boostFactor ELSE deltaY

\* The zoom-in button
ZoomIn ==
    /\ mounted
    /\ anim' = animateViewTo(pan.x, pan.y, Min(maxZoom, zoom + zoomStep),
                             zoomDuration, wheelAnim.live)
    /\ wheelAnim' = [wheelAnim EXCEPT !.after = FALSE]
    /\ log' = [log EXCEPT !.transitions = @ + 1]
    /\ UNCHANGED <<dataVars, pageVars, zoom, pan, container, wheelZoomTarget,
                   offsetVars, lockVars, freePanVars, gesture, outcome,
                   autoPanVars>>

\* The zoom-out button
ZoomOut ==
    /\ mounted
    /\ anim' = animateViewTo(pan.x, pan.y, Max(minZoom, zoom - zoomStep),
                             zoomDuration, wheelAnim.live)
    /\ wheelAnim' = [wheelAnim EXCEPT !.after = FALSE]
    /\ log' = [log EXCEPT !.transitions = @ + 1]
    /\ UNCHANGED <<dataVars, pageVars, zoom, pan, container, wheelZoomTarget,
                   offsetVars, lockVars, freePanVars, gesture, outcome,
                   autoPanVars>>

\* handleWheel with ctrlKey or metaKey: handleWheelZoom toward the cursor,
\* after cancelAnimationFrame of wheelAnimRef.current only.
WheelZoom(deltaY, cursor) ==
    /\ mounted
    /\ \E endZoom \in {wheelTarget(wheelZoomTarget, boosted(deltaY))} :
          /\ wheelZoomTarget' = endZoom
          /\ wheelAnim' =
                [live |-> TRUE, startX |-> pan.x, startY |-> pan.y,
                 startZoom |-> zoom,
                 targetX |-> cursor.x - ((cursor.x - pan.x) * endZoom) \div zoom,
                 targetY |-> cursor.y - ((cursor.y - pan.y) * endZoom) \div zoom,
                 endZoom |-> endZoom, duration |-> wheelDuration,
                 elapsed |-> 0, after |-> anim.live]
    /\ anim' = [anim EXCEPT !.after = FALSE]
    /\ log' = [log EXCEPT !.transitions = @ + 1]
    /\ UNCHANGED <<dataVars, pageVars, zoom, pan, container, offsetVars,
                   lockVars, freePanVars, gesture, outcome,
                   autoPanVars>>

\* The bounding box of the layout nodes at their effective positions, a
\* live offset taking precedence over a saved one.
contentBox(nodes, live, saved) ==
    LET off(id) == IF id \in DOMAIN live THEN live[id] ELSE offsetOf(saved, id)
        xs == {nodes[i].x + off(nodes[i].id).x : i \in 1..Len(nodes)}
        ys == {nodes[i].y + off(nodes[i].id).y : i \in 1..Len(nodes)}
        rs == {nodes[i].x + off(nodes[i].id).x + nodes[i].width : i \in 1..Len(nodes)}
        bs == {nodes[i].y + off(nodes[i].id).y + nodes[i].height : i \in 1..Len(nodes)}
    IN  [minX |-> CHOOSE m \in xs : \A v \in xs : m <= v,
         minY |-> CHOOSE m \in ys : \A v \in ys : m <= v,
         maxX |-> CHOOSE m \in rs : \A v \in rs : v <= m,
         maxY |-> CHOOSE m \in bs : \A v \in bs : v <= m]

\* clampedZoom of fitAll
fitZoom(availW, availH, contentW, contentH) ==
    Max(Min(Min((availW * 1000) \div contentW, (availH * 1000) \div contentH),
            maxZoom),
        minZoom)

\* A variant of fitAll that centres the content as if it started at the
\* origin.
fitAllFromOrigin(nodes, live, saved, rect) ==
    LET box == contentBox(nodes, live, saved)
        contentW == box.maxX - box.minX
        contentH == box.maxY - box.minY
        clampedZoom == fitZoom(rect.width - fitPadding * 2,
                               rect.height - fitPadding * 2, contentW, contentH)
    IN  [x |-> (rect.width * 1000 - contentW * clampedZoom) \div 2000,
         y |-> (rect.height * 1000 - contentH * clampedZoom) \div 2000,
         zoom |-> clampedZoom]

\* fitAll: the view that shows every node, as [x, y, zoom].
fitAll(nodes, live, saved, rect) ==
    LET box == contentBox(nodes, live, saved)
        contentW == box.maxX - box.minX
        contentH == box.maxY - box.minY
        clampedZoom == fitZoom(rect.width - fitPadding * 2,
                               rect.height - fitPadding * 2, contentW, contentH)
    IN  [x |-> (rect.width * 1000 - contentW * clampedZoom) \div 2000
                 - (box.minX * clampedZoom) \div 1000,
         y |-> (rect.height * 1000 - contentH * clampedZoom) \div 2000
                 - (box.minY * clampedZoom) \div 1000,
         zoom |-> clampedZoom]

\* The fit-all button, resetView and the fit of the first frame after load.
FitAll ==
    /\ mounted
    /\ layout.nodes # <<>>
    /\ \E view \in {fitAll(layout.nodes, nodeOffsets,
                           getInitialOffsets(displayTree, layout.nodes),
                           container)} :
          anim' = animateViewTo(view.x, view.y, view.zoom, viewDuration,
                                wheelAnim.live)
    /\ wheelAnim' = [wheelAnim EXCEPT !.after = FALSE]
    /\ log' = [log EXCEPT !.transitions = @ + 1]
    /\ UNCHANGED <<dataVars, pageVars, zoom, pan, container, wheelZoomTarget,
                   offsetVars, lockVars, freePanVars, gesture, outcome,
                   autoPanVars>>

\* What one call of a scheduled frame callback writes, elapsed being the
\* time since its transition started.
stepOf(a, elapsed) ==
    [x |-> eased(a.startX, a.targetX, elapsed, a.duration),
     y |-> eased(a.startY, a.targetY, elapsed, a.duration),
     zoom |-> eased(a.startZoom, a.endZoom, elapsed, a.duration)]

\* The callback reschedules itself while t < 1.
afterStep(a, dt) ==
    IF a.live /\ a.elapsed + dt < a.duration
    THEN [a EXCEPT !.elapsed = @ + dt]
    ELSE NoAnim

\* One animation frame, dt after the previous one: every scheduled callback
\* runs, in the order the callbacks were requested, and the component
\* renders with what was written last (the render resets the wheel target
\* to the zoom).
Frame(dt) ==
    /\ anim.live \/ wheelAnim.live
    /\ \E a \in {IF anim.live THEN stepOf(anim, anim.elapsed + dt)
                 ELSE [x |-> pan.x, y |-> pan.y, zoom |-> zoom]},
          w \in {IF wheelAnim.live THEN stepOf(wheelAnim, wheelAnim.elapsed + dt)
                 ELSE [x |-> pan.x, y |-> pan.y, zoom |-> zoom]} :
       \E wheelLast \in {wheelAnim.live /\ (~anim.live \/ wheelAnim.after)} :
       \E z \in {IF wheelLast THEN w.zoom
                 ELSE IF anim.endZoom # anim.startZoom THEN a.zoom
                 ELSE IF wheelAnim.live THEN w.zoom
                 ELSE zoom} :
          /\ pan' = IF wheelLast THEN Point(w.x, w.y) ELSE Point(a.x, a.y)
          /\ zoom' = z
          /\ wheelZoomTarget' = z
    /\ anim' = afterStep(anim, dt)
    /\ wheelAnim' = afterStep(wheelAnim, dt)
    /\ UNCHANGED <<dataVars, pageVars, container, offsetVars, lockVars, freePanVars,
                   gestureVars,
                   autoPanVars>>

autoPanMargin == 40

\* A variant that brings the node to the edge of the view, without margin.
autoPanDeltaToEdge(c, curPan, curZoom, live, rect) ==
    LET offset == IF c.id \in DOMAIN live THEN live[c.id] ELSE offsetOf(c.saved, c.id)
        nodeX == c.node.x + offset.x
        nodeY == c.node.y + offset.y
        screenLeft   == curPan.x + (nodeX * curZoom) \div 1000
        screenRight  == curPan.x + ((nodeX + c.node.width) * curZoom) \div 1000
        screenTop    == curPan.y + (nodeY * curZoom) \div 1000
        screenBottom == curPan.y + ((nodeY + c.node.height) * curZoom) \div 1000
    IN  Point(IF screenLeft < 0 THEN 0 - screenLeft
              ELSE IF screenRight > rect.width - 0
                   THEN (rect.width - 0) - screenRight
                   ELSE 0,
              IF screenTop < 0 THEN 0 - screenTop
              ELSE IF screenBottom > rect.height - 0
                   THEN (rect.height - 0) - screenBottom
                   ELSE 0)

\* The minimal pan adjustment that brings the node of the callback fully into
\* view: dx and dy of the inner frame callback of the auto-pan effect.
autoPanDelta(c, curPan, curZoom, live, rect) ==
    LET offset == IF c.id \in DOMAIN live THEN live[c.id] ELSE offsetOf(c.saved, c.id)
        nodeX == c.node.x + offset.x
        nodeY == c.node.y + offset.y
        screenLeft   == curPan.x + (nodeX * curZoom) \div 1000
        screenRight  == curPan.x + ((nodeX + c.node.width) * curZoom) \div 1000
        screenTop    == curPan.y + (nodeY * curZoom) \div 1000
        screenBottom == curPan.y + ((nodeY + c.node.height) * curZoom) \div 1000
    IN  Point(IF screenLeft < autoPanMargin THEN autoPanMargin - screenLeft
              ELSE IF screenRight > rect.width - autoPanMargin
                   THEN (rect.width - autoPanMargin) - screenRight
                   ELSE 0,
              IF screenTop < autoPanMargin THEN autoPanMargin - screenTop
              ELSE IF screenBottom > rect.height - autoPanMargin
                   THEN (rect.height - autoPanMargin) - screenBottom
                   ELSE 0)

\* An animation frame in which callbacks of the auto-pan effect are due: an
\* outer callback requests the inner one for the next frame, an inner callback
\* pans when its node is not fully in view.
AutoPanFrame ==
    /\ mounted
    /\ autoPan # <<>>
    /\ \E issued \in {SelectSeq(autoPan, LAMBDA c :
                          /\ c.stage = 2
                          /\ autoPanDelta(c, pan, zoom, nodeOffsets, container)
                               # Point(0, 0))} :
          /\ IF issued # <<>>
             THEN \E d \in {autoPanDelta(issued[Len(issued)], pan, zoom,
                                          nodeOffsets, container)} :
                     /\ anim' = animateViewTo(pan.x + d.x, pan.y + d.y, zoom,
                                              viewDuration, wheelAnim.live)
                     /\ wheelAnim' = [wheelAnim EXCEPT !.after = FALSE]
             ELSE UNCHANGED <<anim, wheelAnim>>
          /\ log' = [log EXCEPT !.autoPans = @ + Len(issued)]
    /\ autoPan' = LET waiting == SelectSeq(autoPan, LAMBDA c : c.stage = 1)
                  IN  [i \in 1..Len(waiting) |-> [waiting[i] EXCEPT !.stage = 2]]
    /\ UNCHANGED <<dataVars, pageVars, zoom, pan, container, wheelZoomTarget,
                   offsetVars, lastAutoPannedId, lockVars, freePanVars, gesture, outcome>>

MaxTransitions == 3
FrameSteps == {50, 100}
WheelDeltas == {-2500, 900, 5}
Cursors == {Point(400, 300)}
Containers == {[width |-> 800, height |-> 600],
               [width |-> 800, height |-> 200],
               [width |-> 100, height |-> 100],
               [width |-> 4000, height |-> 3000]}

InitViewport ==
    /\ store = <<Stream("a", null, 1, <<45, 45>>), Stream("b", "a", 2, <<>>)>>
    /\ streams = store
    /\ writes = <<>>
    /\ snapshots = <<>>
    /\ focusedStreamId = null
    /\ selectedStreamId = null
    /\ pendingSlice = <<>>
    /\ dragLocked = FALSE
    /\ localStorage = null
    /\ zoom = 1000
    /\ pan = Point(0, 0)
    /\ container \in Containers
    /\ anim = NoAnim
    /\ wheelAnim = NoAnim
    /\ wheelZoomTarget = 1000
    /\ \E seeded \in {seededAfterRender(store, null, <<>>, {})} :
          /\ nodeOffsets = seeded.offsets
          /\ processedNodes = seeded.processed
    /\ dragOffsetRef = Point(0, 0)
    /\ InitGesture /\ InitAutoPan /\ InitFreePan

NextView ==
    \/ /\ log.transitions < MaxTransitions
       /\ ZoomIn
    \/ /\ log.transitions < MaxTransitions
       /\ ZoomOut
    \/ /\ log.transitions < MaxTransitions
       /\ \E deltaY \in WheelDeltas, cursor \in Cursors : WheelZoom(deltaY, cursor)
    \/ /\ log.transitions < MaxTransitions
       /\ FitAll
    \/ \E dt \in FrameSteps : Frame(dt)

SpecView == InitViewport /\ [][NextView]_vars

-----------------------------------------------------------------------------
(***************************************************************************)
(* Selection, focus and re-renders while the viewport moves                *)
(***************************************************************************)

\* Bound of the zoom and fit requests made next to the selections.
MaxViewMoves == 1
SelectFrameSteps == {100}
SelectContainers == {[width |-> 800, height |-> 600],
                     [width |-> 300, height |-> 200]}

\* The page with its three streams displayed and nothing selected.
InitShown ==
    /\ store = PageList
    /\ streams = store
    /\ writes = <<>>
    /\ snapshots = <<>>
    /\ selectedStreamId = null
    /\ pendingSlice = <<>>
    /\ dragLocked = FALSE
    /\ localStorage = null
    /\ zoom = 1000
    /\ pan = Point(0, 0)
    /\ anim = NoAnim
    /\ wheelAnim = NoAnim
    /\ wheelZoomTarget = 1000
    /\ \E seeded \in {seededAfterRender(store, focusedStreamId, <<>>, {})} :
          /\ nodeOffsets = seeded.offsets
          /\ processedNodes = seeded.processed
    /\ dragOffsetRef = Point(0, 0)
    /\ InitGesture /\ InitAutoPan /\ InitFreePan

InitSelect ==
    /\ focusedStreamId = null
    /\ container \in SelectContainers
    /\ InitShown

\* Selections, re-renders caused by snapshots, and animation frames.
NextSelect ==
    \/ /\ log.selections < MaxSelections
       /\ \E id \in IdsOf(streams) : SelectStream(id)
    \/ CloseDetail
    \/ /\ snapshots = <<>>
       /\ \E id \in IdsOf(store), pos \in CollabPositions : CollabMove(id, pos)
    \/ DeliverSnapshot
    \/ AutoPanFrame
    \/ \E dt \in SelectFrameSteps : Frame(dt)

SpecSelect == InitSelect /\ [][NextSelect]_vars

\* The same page where every scheduled frame callback eventually runs
\* (requestAnimationFrame keeps delivering frames while callbacks wait).
SpecSelectFair ==
    /\ InitSelect
    /\ [][NextSelect]_vars
    /\ WF_vars(AutoPanFrame)
    /\ WF_vars(\E dt \in SelectFrameSteps : Frame(dt))

CancelContainers == {[width |-> 800, height |-> 600],
                     [width |-> 0, height |-> 0],
                     [width |-> 800, height |-> 0]}

InitCancel ==
    /\ focusedStreamId = "b"
    /\ container \in CancelContainers
    /\ InitShown

\* Zoom and fit requests, a selection, the exit from focus mode, and
\* animation frames.
NextCancel ==
    \/ /\ log.transitions < MaxViewMoves
       /\ ZoomIn
    \/ /\ log.transitions < MaxViewMoves
       /\ FitAll
    \/ /\ log.selections < MaxSelections
       /\ \E id \in IdsOf(streams) : SelectStream(id)
    \/ ExitFocus
    \/ AutoPanFrame
    \/ \E dt \in SelectFrameSteps : Frame(dt)

SpecCancel == InitCancel /\ [][NextCancel]_vars

\* The page at a zoom the zoom controls reach, in a container of 800 x 600.
PanZooms == {200, 1000, 3000}

InitPan ==
    /\ focusedStreamId = null
    /\ container = [width |-> 800, height |-> 600]
    /\ store \in {PageList, [PageList EXCEPT ![2].position = <<430, 30>>]}
    /\ streams = store
    /\ writes = <<>>
    /\ snapshots = <<>>
    /\ selectedStreamId = null
    /\ pendingSlice = <<>>
    /\ dragLocked = FALSE
    /\ localStorage = null
    /\ zoom \in PanZooms
    /\ pan = Point(0, 0)
    /\ anim = NoAnim
    /\ wheelAnim = NoAnim
    /\ wheelZoomTarget = zoom
    /\ \E seeded \in {seededAfterRender(store, focusedStreamId, <<>>, {})} :
          /\ nodeOffsets = seeded.offsets
          /\ processedNodes = seeded.processed
    /\ dragOffsetRef = Point(0, 0)
    /\ InitGesture /\ InitAutoPan /\ InitFreePan

\* Selections after the canvas may have been dragged, and the frames of the
\* auto-pan that follows.
NextPan ==
    \/ /\ log.selections < MaxSelections
       /\ \E id \in IdsOf(streams) : SelectStream(id)
    \/ CloseDetail
    \/ \E d \in CanvasDeltas : CanvasDrag(d)
    \/ AutoPanFrame
    \/ \E dt \in SelectFrameSteps : Frame(dt)

SpecPan == InitPan /\ [][NextPan]_vars

-----------------------------------------------------------------------------
(***************************************************************************)
(* StreamTree: free-pan (handleClick, handleMouseMove, handleMouseLeave)   *)
(***************************************************************************)

\* handleMouseMove: a mousemove over the svg with no button held.  Nothing
\* happens unless freePan is set; then the pan follows the pointer from the
\* last position recorded.
MouseMove(p) ==
    /\ mounted
    /\ gesture.phase = "idle"
    /\ mouse # <<p>>
    /\ mouse' = <<p>>
    /\ IF freePan
       THEN /\ pan' = IF lastMousePos # <<>>
                      THEN Point(pan.x + (p.x - lastMousePos[1].x),
                                 pan.y + (p.y - lastMousePos[1].y))
                      ELSE pan
            /\ lastMousePos' = <<p>>
       ELSE UNCHANGED <<pan, lastMousePos>>
    /\ UNCHANGED <<dataVars, pageVars, zoom, container, anim, wheelAnim,
                   wheelZoomTarget, offsetVars, autoPanVars, lockVars, freePan,
                   gestureVars>>

\* handleMouseLeave: the pointer leaves the svg.
MouseLeave ==
    /\ mounted
    /\ mouse # <<>>
    /\ mouse' = <<>>
    /\ lastMousePos' = <<>>
    /\ UNCHANGED <<dataVars, pageVars, viewVars, offsetVars, autoPanVars,
                   lockVars, freePan, gestureVars>>

\* handleClick: a mousedown that reaches the svg.
CanvasMouseDown ==
    /\ mounted
    /\ mouse # <<>>
    /\ gesture.phase = "idle"
    /\ IF freePan
       THEN /\ freePan' = FALSE
            /\ lastMousePos' = <<>>
       ELSE UNCHANGED <<freePan, lastMousePos>>
    /\ UNCHANGED <<dataVars, pageVars, viewVars, offsetVars, autoPanVars,
                   lockVars, mouse, gestureVars>>

MousePoints == {Point(100, 100), Point(103, 100), Point(103, 104)}

\* The page with its streams displayed and the pointer outside the canvas.
InitMouse ==
    /\ focusedStreamId = null
    /\ container = [width |-> 800, height |-> 600]
    /\ InitShown

\* The pointer moving over the canvas, entering and leaving it, pressing on
\* the background, clicking or dragging a node and dragging the canvas.
NextMouse ==
    \/ \E p \in MousePoints : MouseMove(p)
    \/ MouseLeave
    \/ CanvasMouseDown
    \/ /\ log.gestures < MaxGestures
       /\ \E id \in IdsOf(streams), p \in PointerStarts : NodeDragStart(id, p)
    \/ /\ Len(gesture.path) < MaxMoves
       /\ \E d \in Displacements : NodeDragMove(d)
    \/ NodeDragEnd
    \/ \E d \in CanvasDeltas : CanvasDrag(d)

\* The user keeps moving the pointer over the canvas with no button held.
SpecMouse ==
    /\ InitMouse
    /\ [][NextMouse]_vars
    /\ WF_vars(\E p \in MousePoints : MouseMove(p))

-----------------------------------------------------------------------------
(***************************************************************************)
(* Claims about the viewport                                               *)
(***************************************************************************)

\* C1: starting from zoom = 1, after any interleaving of zoom-in and zoom-out
\* button presses, ctrl/meta-wheel zoom events, fit-all requests and the
\* animation frames they schedule, the zoom is within [0.2, 3.0].
C1_ZoomInRange == 200 <= zoom /\ zoom <= 3000

\* Several transitions were started and the view has come to rest at the
\* largest zoom.
C1_Witness ==
    /\ zoom = 3000
    /\ log.transitions > 1
    /\ ~anim.live
    /\ ~wheelAnim.live

\* C2: at most one viewport animation loop is live at any time; a new
\* transition first cancels every scheduled frame callback that writes pan
\* or zoom.
C2_OneLoopLive == ~(anim.live /\ wheelAnim.live)

-----------------------------------------------------------------------------
(***************************************************************************)
(* Claims about the focus projection                                       *)
(***************************************************************************)

\* Every node of a tree, parents before children.
RECURSIVE NodesOf(_)
NodesOf(nodes) ==
    IF nodes = <<>> THEN <<>>
    ELSE <<Head(nodes)>> \o NodesOf(Head(nodes).children) \o NodesOf(Tail(nodes))

Placeholders(tree) == SelectSeq(NodesOf(tree), LAMBDA n : n.collapsed # <<>>)
RealNodes(tree) == SelectSeq(NodesOf(tree), LAMBDA n : n.collapsed = <<>>)
NoDuplicates(s) == \A i, j \in 1..Len(s) : i # j => s[i] # s[j]

FocusFound == focusedStreamId # null /\ focusedStreamId \in IdsOf(streams)

\* C9: for a tree with unique ids and a focused id found in it, the
\* originalIds of the placeholders of buildFocusedTree are pairwise disjoint,
\* disjoint from the ids of the real nodes, and cover with them exactly the
\* ids of the full tree; each placeholder's count is the length of its
\* originalIds.
C9_PlaceholdersPartition ==
    FocusFound =>
        LET out == buildFocusedTree(streamTree, focusedStreamId)
            ph == Placeholders(out)
            real == RealNodes(out)
            realIds == {real[i].id : i \in 1..Len(real)}
            orig(i) == ph[i].collapsed[1].originalIds
        IN  /\ \A i \in 1..Len(ph) : NoDuplicates(orig(i))
            /\ \A i, j \in 1..Len(ph) :
                  i # j => Range(orig(i)) \cap Range(orig(j)) = {}
            /\ \A i \in 1..Len(ph) : Range(orig(i)) \cap realIds = {}
            /\ NoDuplicates([i \in 1..Len(real) |-> real[i].id])
            /\ realIds \cup UNION {Range(orig(i)) : i \in 1..Len(ph)}
                 = IdsOf(streams)
            /\ \A i \in 1..Len(ph) : ph[i].collapsed[1].count = Len(orig(i))

\* Witness of C9: a focus projection with two placeholders, one of which
\* absorbed a whole subtree.
C9_Witness ==
    /\ FocusFound
    /\ LET ph == Placeholders(displayTree)
       IN  /\ Len(ph) >= 2
           /\ \E i \in 1..Len(ph) : ph[i].collapsed[1].count >= 2

\* C10: the focused node is a real node of the projection, its id is in no
\* placeholder's originalIds, and its subtree is the subtree of the full tree,
\* unchanged and free of placeholders.
C10_FocusedSubtreeVerbatim ==
    FocusFound =>
        LET out == buildFocusedTree(streamTree, focusedStreamId)
            ph == Placeholders(out)
            inOut == SelectSeq(RealNodes(out), LAMBDA n : n.id = focusedStreamId)
            inFull == SelectSeq(NodesOf(streamTree), LAMBDA n : n.id = focusedStreamId)
        IN  /\ Len(inOut) = 1
            /\ \A i \in 1..Len(ph) :
                  focusedStreamId \notin Range(ph[i].collapsed[1].originalIds)
            /\ inOut[1] = inFull[1]
            /\ Placeholders(inOut[1].children) = <<>>

\* Witness of C10: the focused node has a child and a grandchild, and a
\* sibling that was collapsed.
C10_Witness ==
    /\ FocusFound
    /\ LET inOut == SelectSeq(RealNodes(displayTree),
                              LAMBDA n : n.id = focusedStreamId)
       IN  /\ Len(inOut) = 1
           /\ countAllNodes(inOut[1].children) >= 2
           /\ Placeholders(displayTree) # <<>>

\* What C11 compares of a tree: ids, placeholder counts and originalIds, and
\* the structure.
RECURSIVE Outline(_)
Outline(nodes) ==
    [i \in 1..Len(nodes) |->
        [id |-> nodes[i].id, collapsed |-> nodes[i].collapsed,
         children |-> Outline(nodes[i].children)]]

\* C11: for a focused id found in the tree, buildFocusedTree applied to its
\* own output with the same id returns a tree equal to the first output: same
\* real nodes, same placeholder ids, counts and originalIds, same structure.
C11_Idempotent ==
    FocusFound =>
        LET out == buildFocusedTree(streamTree, focusedStreamId)
        IN  Outline(buildFocusedTree(out, focusedStreamId)) = Outline(out)

\* C11 as the code has it: the second application keeps the real nodes and
\* the structure (a placeholder exactly where there was one, nothing further
\* collapsed), and rebuilds every placeholder around the previous one: id
\* "collapsed-" + previous id, count 1, originalIds = [previous id].  The two
\* outputs are equal exactly when the first has no placeholder.
C11_SecondPassRewraps ==
    FocusFound =>
        LET out == buildFocusedTree(streamTree, focusedStreamId)
            twice == buildFocusedTree(out, focusedStreamId)
            a == NodesOf(out)
            b == NodesOf(twice)
        IN  /\ Len(a) = Len(b)
            /\ \A i \in 1..Len(a) :
                  /\ Len(a[i].children) = Len(b[i].children)
                  /\ a[i].parent_stream_id = b[i].parent_stream_id
                  /\ IF a[i].collapsed = <<>>
                     THEN b[i].collapsed = <<>> /\ b[i].id = a[i].id
                     ELSE /\ b[i].id = "collapsed-" \o a[i].id
                          /\ b[i].collapsed =
                                <<[count |-> 1, originalIds |-> <<a[i].id>>]>>
            /\ (Outline(twice) = Outline(out)) <=> (Placeholders(out) = <<>>)

\* Witness of C11: a projection with an ancestor above the focused node and
\* a placeholder that stands for several streams.
C11_Witness ==
    /\ FocusFound
    /\ Len(findAncestorChain(streamTree, focusedStreamId, <<>>)) >= 2
    /\ LET ph == Placeholders(displayTree)
       IN  \E i \in 1..Len(ph) : Len(ph[i].collapsed[1].originalIds) >= 2

-----------------------------------------------------------------------------
(***************************************************************************)
(* Claims about focus and selection while the streams change               *)
(***************************************************************************)

\* C12: once the effects of a render have run, focus on and a selection
\* imply that the selected id is in no placeholder's originalIds of the focus
\* projection: a selection folded into a placeholder is cleared.
C12_SelectionOutsidePlaceholders ==
    (focusedStreamId # null /\ selectedStreamId # null) =>
        LET ph == Placeholders(buildFocusedTree(buildStreamTree(streams),
                                                focusedStreamId))
        IN  \A i \in 1..Len(ph) :
               selectedStreamId \notin Range(ph[i].collapsed[1].originalIds)

\* Witness of C12: the clear-selection effect has fired and the page is in
\* focus mode, with a placeholder and without a selection.
C12_Witness ==
    /\ log.cleared
    /\ focusedStreamId # null
    /\ selectedStreamId = null
    /\ Placeholders(displayTree) # <<>>

\* C13: a focused id that is not found in the stream tree does not stay: the
\* focus state is null, the unfiltered tree is displayed, and every node is
\* drawn at its layout position plus its offset, without focus overrides.
C13_LostFocusReset ==
    /\ focusedStreamId # null =>
          findAncestorChain(buildStreamTree(streams), focusedStreamId, <<>>) # <<>>
    /\ \A id \in IdsOf(PageList) \ IdsOf(streams) :
          /\ focusedStreamId # id
          /\ buildFocusedTree(buildStreamTree(streams), id) = buildStreamTree(streams)
    /\ focusedStreamId = null =>
          /\ displayTree = buildStreamTree(streams)
          /\ \A i \in 1..Len(layout.nodes) :
                getAdjustedPosition(focusedStreamId, layout.nodes[i], nodeOffsets)
                  = Point(layout.nodes[i].x + offsetOf(nodeOffsets, layout.nodes[i].id).x,
                          layout.nodes[i].y + offsetOf(nodeOffsets, layout.nodes[i].id).y)

\* Witness of C13: the clear-focus effect has fired, the focused stream having
\* been deleted, and the remaining streams are displayed.
C13_Witness ==
    /\ log.unfocused
    /\ focusedStreamId = null
    /\ mounted
    /\ snapshots = <<>>
    /\ Len(streams) < Len(PageList)

-----------------------------------------------------------------------------
(***************************************************************************)
(* Claims about the auto-pan and the cancellation of animations            *)
(***************************************************************************)

\* C14: the animated pans auto-pan has issued, together with the callbacks
\* it still has scheduled, never outnumber the changes of the selected id:
\* for one selected id there is at most one animated pan, however often the
\* component re-renders, and another one requires another selection.
C14_OnePanPerSelection ==
    log.autoPans + Len(autoPan) <= log.selections

\* Witness of C14: one selection, its animated pan issued and finished, and a
\* snapshot delivered (a re-render with a new layout) with the stream still
\* selected.
C14_Witness ==
    /\ log.selections = 1
    /\ log.autoPans = 1
    /\ log.edits >= 1
    /\ snapshots = <<>>
    /\ selectedStreamId # null
    /\ autoPan = <<>>
    /\ ~anim.live

\* C15: selecting a different node and exiting focus mode each cancel every
\* in-flight viewport animation: after such a step no frame callback of an
\* earlier animation is scheduled, neither a viewport transition nor a
\* callback of an earlier auto-pan.
C15_AnimationsCancelled ==
    [][(\/ (selectedStreamId' # selectedStreamId /\ selectedStreamId' # null)
        \/ (focusedStreamId # null /\ focusedStreamId' = null))
       => /\ ~anim'.live
          /\ ~wheelAnim'.live
          /\ \A i \in 1..Len(autoPan') : autoPan'[i].id = selectedStreamId']_vars

\* C16: with a container of zero width or height, or a layout without nodes,
\* fit-all and auto-pan start no animation (the transitions of the default
\* duration are theirs) and so leave pan and zoom unchanged.
C16_NoOpWithoutSize ==
    [][(container.width = 0 \/ container.height = 0 \/ layout.nodes = <<>>)
       => ~(/\ anim' # anim
            /\ anim'.live
            /\ anim'.elapsed = 0
            /\ anim'.duration = viewDuration)]_vars

-----------------------------------------------------------------------------
(***************************************************************************)
(* StreamTree: the collapsed placeholders                                  *)
(***************************************************************************)

\* A variant in which the group of a placeholder had the drag behaviour of a
\* node, whose click selects the node's stream.
PlaceholderGestureAsNode(id, released) ==
    /\ mounted
    /\ gesture.phase = "idle"
    /\ \E i \in 1..Len(layout.nodes) :
          /\ layout.nodes[i].id = id
          /\ layout.nodes[i].stream.collapsed # <<>>
    /\ freePan' = FALSE
    /\ lastMousePos' = <<>>
    /\ outcome' = [NoOutcome EXCEPT !.kind = "placeholder", !.node = id,
                                    !.selects = <<id>>]
    /\ selectedStreamId' = IF released THEN id ELSE selectedStreamId
    /\ UNCHANGED <<dataVars, focusedStreamId, pendingSlice, viewVars, offsetVars,
                   autoPanVars, lockVars, mouse, gesture, log>>

\* A pointer gesture on the placeholder id: a press, any movement and the
\* release, over the placeholder (released: the browser dispatches a click) or
\* away from it. The group of a placeholder has a click handler only: nodeDrag
\* and the connection handle are not attached (the rendering returns before
\* them), and canvasDrag's filter refuses a press whose target is not the svg.
\* The press bubbles to the svg's mousedown listener, which ends free-pan;
\* the click stops its propagation and calls onExitFocus.
PlaceholderGesture(id, released) ==
    /\ mounted
    /\ gesture.phase = "idle"
    /\ \E i \in 1..Len(layout.nodes) :
          /\ layout.nodes[i].id = id
          /\ layout.nodes[i].stream.collapsed # <<>>
    /\ IF freePan
       THEN /\ freePan' = FALSE
            /\ lastMousePos' = <<>>
       ELSE UNCHANGED <<freePan, lastMousePos>>
    /\ outcome' = [NoOutcome EXCEPT !.kind = "placeholder", !.node = id]
    /\ IF released
       THEN /\ focusedStreamId' = null
            /\ \E seeded \in {seededAfterRender(streams, null, nodeOffsets,
                                                processedNodes)} :
                  /\ nodeOffsets' = seeded.offsets
                  /\ processedNodes' = seeded.processed
            /\ \E r \in {autoPanAfterRender(streams, null, selectedStreamId,
                                             selectedStreamId, TRUE,
                                             lastAutoPannedId, autoPan)} :
                  /\ lastAutoPannedId' = r.last
                  /\ autoPan' = r.queue
       ELSE UNCHANGED <<focusedStreamId, nodeOffsets, processedNodes, autoPanVars>>
    /\ UNCHANGED <<dataVars, selectedStreamId, pendingSlice, viewVars, dragOffsetRef,
                   lockVars, mouse, gesture, log>>

\* The ids of the placeholders the page's streams can give.
PlaceholderIds == {"collapsed-" \o id : id \in IdsOf(PageList)}

\* The page with its streams displayed; the user selects and focuses streams
\* and uses the placeholders, and a collaborator moves a stream.
InitPlaceholder ==
    /\ focusedStreamId = null
    /\ container = [width |-> 800, height |-> 600]
    /\ InitShown

NextPlaceholder ==
    \/ \E id \in IdsOf(PageList) : FocusStream(id)
    \/ \E id \in PlaceholderIds, released \in BOOLEAN : PlaceholderGesture(id, released)
    \/ /\ snapshots = <<>>
       /\ \E id \in IdsOf(store), pos \in CollabPositions : CollabMove(id, pos)
    \/ DeliverSnapshot
    \/ /\ log.selections < MaxSelections
       /\ \E id \in IdsOf(streams) : SelectStream(id)

SpecPlaceholder == InitPlaceholder /\ [][NextPlaceholder]_vars

-----------------------------------------------------------------------------
(***************************************************************************)
(* Claims about the layout                                                 *)
(***************************************************************************)

\* The nodes of a display tree in document order (a parent before its
\* children, siblings in their order), each with its depth, whether it is a
\* leaf, and the ids of its first and last child.
\* The layout node of an id, as a sequence of at most one node.
layoutNodeOf(id) == findNode(layout.nodes, id)

RECURSIVE Placed(_, _)
Placed(nodes, depth) ==
    IF nodes = <<>> THEN <<>>
    ELSE LET node == Head(nodes)
             n == Len(node.children)
         IN  <<[id |-> node.id, depth |-> depth, leaf |-> n = 0,
                first |-> IF n = 0 THEN null ELSE node.children[1].id,
                last |-> IF n = 0 THEN null ELSE node.children[n].id]>>
             \o Placed(node.children, depth + 1)
             \o Placed(Tail(nodes), depth)

PlacedLeaves(tree) == SelectSeq(Placed(tree, 0), LAMBDA p : p.leaf)
PlacedParents(tree) == SelectSeq(Placed(tree, 0), LAMBDA p : ~p.leaf)

\* C17: every node of the display tree is laid out once; a node at depth d
\* has x = d * (nodeWidth + horizontalSpacing) + padding, and the k-th leaf
\* in document order, counting from 0, has
\* y = k * (nodeHeight + verticalSpacing) + padding.
C17_DepthAndLeafGrid ==
    LET all == Placed(displayTree, 0)
        leaves == PlacedLeaves(displayTree)
    IN  /\ Len(layout.nodes) = Len(all)
        /\ \A i \in 1..Len(all) :
              /\ layoutNodeOf(all[i].id) # <<>>
              /\ layoutNodeOf(all[i].id)[1].x
                   = all[i].depth * (nodeWidth + horizontalSpacing) + padding
        /\ \A k \in 1..Len(leaves) :
              layoutNodeOf(leaves[k].id)[1].y
                = (k - 1) * (nodeHeight + verticalSpacing) + padding

\* The display tree of focus mode, laid out again after a stream was focused,
\* with at least three leaves at different depths under different parents.
C17_Witness ==
    LET leaves == PlacedLeaves(displayTree)
    IN  /\ FocusFound
        /\ Len(leaves) >= 3
        /\ \E i, j \in 1..Len(leaves) : leaves[i].depth + 2 <= leaves[j].depth
        /\ Len(PlacedParents(displayTree)) >= 2
        /\ C17_DepthAndLeafGrid

\* C18: every node with children has its y at the midpoint of the y of its
\* first child and the y of its last child.
C18_ParentAtMidpoint ==
    LET parents == PlacedParents(displayTree)
    IN  \A i \in 1..Len(parents) :
           2 * layoutNodeOf(parents[i].id)[1].y
             = layoutNodeOf(parents[i].first)[1].y
               + layoutNodeOf(parents[i].last)[1].y

\* The example of the claim, in the layout made after a stream was focused:
\* two leaves B and C, the children of A, at y 40 and 180, and A at 110; and
\* a parent whose first child is itself a parent.
C18_Witness ==
    /\ FocusFound
    /\ \E i \in 1..Len(PlacedParents(displayTree)) :
          LET A == PlacedParents(displayTree)[i]
          IN  /\ A.first # A.last
              /\ layoutNodeOf(A.first)[1].y = 40
              /\ layoutNodeOf(A.last)[1].y = 180
              /\ layoutNodeOf(A.id)[1].y = 110
    /\ \E i \in 1..Len(PlacedParents(displayTree)) :
          LET P == PlacedParents(displayTree)[i]
          IN  layoutNodeOf(P.first)[1].y # layoutNodeOf(P.id)[1].y
              /\ findNode(PlacedParents(displayTree), P.first) # <<>>

\* C19: the intervals [y, y + height] of two different leaves never overlap:
\* their y differ by at least nodeHeight + verticalSpacing.
C19_LeavesApart ==
    LET leaves == PlacedLeaves(displayTree)
        y(k) == layoutNodeOf(leaves[k].id)[1].y
    IN  \A i, j \in 1..Len(leaves) :
           i < j => /\ y(j) - y(i) >= nodeHeight + verticalSpacing
                    /\ y(i) + layoutNodeOf(leaves[i].id)[1].height < y(j)

\* Focus mode on, with a placeholder among at least three leaves that are
\* not all at one depth.
C19_Witness ==
    LET leaves == PlacedLeaves(displayTree)
    IN  /\ FocusFound
        /\ Len(Placeholders(displayTree)) >= 1
        /\ Len(leaves) >= 3
        /\ \E i, j \in 1..Len(leaves) : leaves[i].depth # leaves[j].depth

\* C20: the layout of an empty display tree has no nodes, no links and a
\* bounding box of width 0 and height 0.
C20_EmptyLayoutZeroBox ==
    displayTree = <<>> =>
       /\ layout.nodes = <<>>
       /\ layout.links = <<>>
       /\ layout.width = 0
       /\ layout.height = 0

\* C20 as the code has it: no nodes and no links, and a bounding box that is
\* the padding alone, in width and in height.
C20_EmptyLayoutPaddingBox ==
    displayTree = <<>> =>
       /\ layout.nodes = <<>>
       /\ layout.links = <<>>
       /\ layout.width = padding
       /\ layout.height = padding

\* The last stream of the project has been deleted.
C20_Witness ==
    /\ displayTree = <<>>
    /\ streams = <<>>
    /\ Len(store) < Len(PageList)
    /\ layout.width = 40

-----------------------------------------------------------------------------
(***************************************************************************)
(* Claims about the offsets and the store                                  *)
(***************************************************************************)

\* A step that delivers a snapshot to the mounted tree: a re-layout and a run
\* of the seeding effect.
Redelivery == mounted /\ snapshots # <<>> /\ snapshots' = Tail(snapshots)

\* C6: once an offset has been seeded for a node id from its persisted
\* position during this mount, no later seeding run (the hierarchy being
\* re-delivered, possibly with another persisted position or another base
\* position) changes that node's offset.
C6_SeededOffsetKept ==
    [][Redelivery =>
          \A id \in processedNodes :
              /\ id \in DOMAIN nodeOffsets'
              /\ id \in DOMAIN nodeOffsets
              /\ nodeOffsets'[id] = nodeOffsets[id]]_vars

\* Witness of C6: no drag was made, and a seeded node keeps an offset that is
\* not the one its persisted position and base position of now would seed.
C6_Witness ==
    /\ mounted
    /\ log.everDragged = {}
    /\ \E id \in processedNodes :
          \E fresh \in {getInitialOffsets(displayTree, layout.nodes)} :
              /\ id \in DOMAIN fresh
              /\ id \in DOMAIN nodeOffsets
              /\ fresh[id] # nodeOffsets[id]

\* C7: when the streams are re-delivered, the offset of every still-existing
\* node whose offset was set by a completed drag is left unchanged by the
\* re-layout and re-seeding that follow.
C7_DraggedOffsetsKept ==
    [][Redelivery =>
          \A id \in log.dragged \cap IdsOf(streams') :
              offsetOf(nodeOffsets', id) = offsetOf(nodeOffsets, id)]_vars

\* Every position update has succeeded and every snapshot has been delivered.
Settled ==
    /\ mounted
    /\ writes = <<>>
    /\ snapshots = <<>>
    /\ gesture.phase = "idle"
    /\ ~log.failed

\* C8: after any sequence of node drags (hierarchy unchanged, no focus mode,
\* no edit of a collaborator), once every position update has succeeded and
\* every snapshot has been delivered, each dragged node's effective position
\* (base + offset) is the position stored for it.
C8_StoredIsEffective ==
    (Settled /\ log.edits = 0 /\ focusedStreamId = null) =>
        \A id \in log.everDragged :
            \E i \in 1..Len(store) :
                /\ store[i].id = id
                /\ layoutNodeOf(id) # <<>>
                /\ store[i].position =
                      <<layoutNodeOf(id)[1].x + offsetOf(nodeOffsets, id).x,
                        layoutNodeOf(id)[1].y + offsetOf(nodeOffsets, id).y>>

-----------------------------------------------------------------------------
(***************************************************************************)
(* Claims about the gestures and the position lock                         *)
(***************************************************************************)

NodeOutcome == outcome.kind = "node"

\* The last gesture selected its node: one onSelectStream, no offset changed,
\* no position update requested.
EndedBySelect ==
    /\ outcome.selects = <<outcome.node>>
    /\ outcome.after = outcome.before
    /\ outcome.updates = <<>>

\* The last gesture committed a drag: the offset of its node set and no other
\* changed, one position update for the node at base + offset, no
\* onSelectStream.
EndedByCommit ==
    /\ outcome.selects = <<>>
    /\ outcome.node \in DOMAIN outcome.after
    /\ DOMAIN outcome.after = DOMAIN outcome.before \cup {outcome.node}
    /\ \A id \in DOMAIN outcome.before :
          id # outcome.node => outcome.after[id] = outcome.before[id]
    /\ Len(outcome.updates) = 1
    /\ outcome.updates[1].id = outcome.node
    /\ outcome.updates[1].x = outcome.nodeX + outcome.after[outcome.node].x
    /\ outcome.updates[1].y = outcome.nodeY + outcome.after[outcome.node].y

\* Move i of the last gesture was more than 3 away from the start on an axis,
\* the displacement being divided by the zoom.
Beyond(i) ==
    \/ Abs(outcome.path[i].dx) * 1000 > 3 * outcome.zoom
    \/ Abs(outcome.path[i].dy) * 1000 > 3 * outcome.zoom

\* C3 as stated: every node gesture ends by selecting the node if the
\* threshold was never crossed, and by committing the drag (offset set, one
\* position update, no selection) if it was crossed at any point.
C3_OneOutcome ==
    NodeOutcome =>
        IF \E i \in 1..Len(outcome.path) : Beyond(i)
        THEN EndedByCommit
        ELSE EndedBySelect

\* C3, amended: every node gesture ends by committing the drag if the
\* threshold was crossed at a move made while the position lock was off, even
\* when the pointer is back within the threshold at release, and by selecting
\* the node otherwise.
C3_OneOutcomeUnlocked ==
    NodeOutcome =>
        IF \E i \in 1..Len(outcome.path) : ~outcome.path[i].locked /\ Beyond(i)
        THEN EndedByCommit
        ELSE EndedBySelect

\* Witness of C3: a gesture that crossed the threshold with the lock off, was
\* back within it at release, and was committed.
C3_Witness ==
    /\ NodeOutcome
    /\ Len(outcome.path) >= 2
    /\ ~outcome.path[1].locked /\ Beyond(1)
    /\ ~Beyond(Len(outcome.path))
    /\ EndedByCommit

\* The last gesture was made with the lock off throughout.
LockOffThroughout ==
    /\ ~outcome.lockedAtEnd
    /\ \A i \in 1..Len(outcome.path) : ~outcome.path[i].locked

\* C4 as stated: with the lock off, a node gesture is a drag when its largest
\* pointer displacement in x or in y is at least 3 px and a click when it is
\* below 3 px on both axes, at every zoom.
C4_ThreePixels ==
    (NodeOutcome /\ LockOffThroughout) =>
        (outcome.updates # <<>> <=>
            \E i \in 1..Len(outcome.path) :
                Abs(outcome.path[i].dx) >= 3 \/ Abs(outcome.path[i].dy) >= 3)

\* C4, amended: with the lock off, a node gesture is a drag when at some move
\* the pointer displacement in x or in y, divided by the zoom, was more than
\* 3, and a click otherwise (a displacement of exactly 3 at zoom 1 is a
\* click).
C4_MoreThanThreeScaled ==
    (NodeOutcome /\ LockOffThroughout) =>
        /\ outcome.updates # <<>> <=> \E i \in 1..Len(outcome.path) : Beyond(i)
        /\ outcome.selects # <<>> <=> \A i \in 1..Len(outcome.path) : ~Beyond(i)

\* Witness of C4: at zoom 1, lock off, a gesture that went exactly 3 away and
\* no further, and was a click.
C4_Witness ==
    /\ NodeOutcome /\ LockOffThroughout
    /\ outcome.zoom = 1000
    /\ outcome.path # <<>>
    /\ \A i \in 1..Len(outcome.path) :
          Abs(outcome.path[i].dx) = 3 /\ outcome.path[i].dy = 0
    /\ outcome.selects = <<outcome.node>>

\* C5 as stated: while the lock is on, no node gesture changes an offset or
\* requests a position update, and every node gesture ends by selecting the
\* node.
C5_LockedGestureSelects ==
    (NodeOutcome /\ outcome.lockedAtEnd) => EndedBySelect

\* C5, amended: a node gesture during which the lock is on at every pointer
\* move changes no offset, requests no position update and ends by selecting
\* the node; a canvas drag pans by the delta of the event and a connection
\* drag requests the child at the release position whatever the lock; the
\* lock of the mounted tree is the value kept in persistent storage.
C5_LockedMovesIgnored ==
    /\ (NodeOutcome /\ \A i \in 1..Len(outcome.path) : outcome.path[i].locked)
          => EndedBySelect
    /\ outcome.kind = "canvas" =>
          /\ outcome.panAfter.x = outcome.panBefore.x + outcome.path[1].dx
          /\ outcome.panAfter.y = outcome.panBefore.y + outcome.path[1].dy
          /\ outcome.after = outcome.before
    /\ outcome.kind = "handle" =>
          /\ Len(outcome.creates) = 1
          /\ outcome.creates[1].parentId = outcome.node
          /\ outcome.creates[1].position =
                IF outcome.path = <<>> THEN Point(0, 0)
                ELSE LET last == outcome.path[Len(outcome.path)]
                     IN  Point(((last.dx - outcome.panBefore.x) * 1000)
                                  \div outcome.zoom,
                               ((last.dy - outcome.panBefore.y) * 1000)
                                  \div outcome.zoom - 40)
          /\ outcome.after = outcome.before
    /\ mounted => (dragLocked <=> localStorage = "true")

\* Witness of C5: with the lock on, a gesture went past the threshold and
\* ended by selecting the node.
C5_Witness ==
    /\ NodeOutcome
    /\ outcome.lockedAtEnd
    /\ outcome.path # <<>>
    /\ \A i \in 1..Len(outcome.path) : outcome.path[i].locked /\ Beyond(i)
    /\ EndedBySelect

-----------------------------------------------------------------------------
(***************************************************************************)
(* Claims about the placement of seeded nodes                              *)
(***************************************************************************)

\* The displayed streams whose offset is the one the seeding effect computes
\* from their persisted position against the current layout.
SeededHere ==
    LET flat == flattenTree(displayTree)
        seeded == getInitialOffsets(displayTree, layout.nodes)
    IN  {i \in 1..Len(flat) :
            /\ flat[i].position # <<>>
            /\ flat[i].id \in DOMAIN seeded
            /\ flat[i].id \in processedNodes
            /\ flat[i].id \in DOMAIN nodeOffsets
            /\ nodeOffsets[flat[i].id] = seeded[flat[i].id]}

\* The position at which the render effect places the i-th displayed stream.
PlacedAt(i) ==
    getAdjustedPosition(focusedStreamId,
                        layoutNodeOf(flattenTree(displayTree)[i].id)[1],
                        nodeOffsets)

\* The persisted position of the i-th displayed stream.
PersistedAt(i) ==
    Point(flattenTree(displayTree)[i].position[1],
          flattenTree(displayTree)[i].position[2])

-----------------------------------------------------------------------------
(***************************************************************************)
(* Claims about fit-all                                                    *)
(***************************************************************************)

\* A step that starts the transition of fit-all.
FitAllStarts ==
    /\ anim'.live
    /\ anim'.elapsed = 0
    /\ anim'.duration = viewDuration
    /\ log'.transitions = log.transitions + 1
    /\ autoPan' = autoPan

\* The bounding box of the effective node rectangles (base position plus
\* offset, base size).
EffectiveBox ==
    LET n == Len(layout.nodes)
        ex(i) == layout.nodes[i].x + offsetOf(nodeOffsets, layout.nodes[i].id).x
        ey(i) == layout.nodes[i].y + offsetOf(nodeOffsets, layout.nodes[i].id).y
    IN  [left   |-> CHOOSE v \in {ex(i) : i \in 1..n} :
                      \A i \in 1..n : v <= ex(i),
         top    |-> CHOOSE v \in {ey(i) : i \in 1..n} :
                      \A i \in 1..n : v <= ey(i),
         right  |-> CHOOSE v \in {ex(i) + layout.nodes[i].width : i \in 1..n} :
                      \A i \in 1..n : ex(i) + layout.nodes[i].width <= v,
         bottom |-> CHOOSE v \in {ey(i) + layout.nodes[i].height : i \in 1..n} :
                      \A i \in 1..n : ey(i) + layout.nodes[i].height <= v]

\* C22: fit-all targets zoom = max(min(availW / contentW, availH / contentH,
\* 3), 0.2), with avail the container size minus 2 * 60 and content the
\* bounding box of the effective node rectangles, and the pan that puts the
\* centre of that box at the centre of the container.  The zoom is in
\* thousandths, so the ratios are compared to within one thousandth and the
\* centres to within two pixels.  A single 320 x 100 node in an 800 x 600
\* container gives zoom 2.125.
C22_FitAllTarget ==
    [][FitAllStarts =>
         LET box == EffectiveBox
             contentW == box.right - box.left
             contentH == box.bottom - box.top
             availW == container.width - 2 * 60
             availH == container.height - 2 * 60
             z == anim'.endZoom
         IN  /\ 200 <= z /\ z <= 3000
             /\ z < 3000 => \/ availW * 1000 < (z + 1) * contentW
                            \/ availH * 1000 < (z + 1) * contentH
             /\ z > 200 => /\ z * contentW <= availW * 1000
                           /\ z * contentH <= availH * 1000
             /\ Abs(2000 * anim'.targetX + (2 * box.left + contentW) * z
                    - 1000 * container.width) <= 4000
             /\ Abs(2000 * anim'.targetY + (2 * box.top + contentH) * z
                    - 1000 * container.height) <= 4000
             /\ fitAll(<<[id |-> "n", x |-> 40, y |-> 40,
                          width |-> 320, height |-> 100]>>, <<>>, <<>>,
                       [width |-> 800, height |-> 600]).zoom = 2125]_vars

\* Fit-all has started towards a zoom strictly between the two limits, for
\* content that does not start at the origin and has a node moved by its
\* offset.
C22_Witness ==
    /\ anim.live
    /\ anim.duration = viewDuration
    /\ 200 < anim.endZoom /\ anim.endZoom < 3000
    /\ EffectiveBox.left # 0
    /\ \E id \in DOMAIN nodeOffsets : nodeOffsets[id] # Point(0, 0)
    /\ anim.targetX # pan.x

-----------------------------------------------------------------------------
(***************************************************************************)
(* Claims about free-pan                                                   *)
(***************************************************************************)

\* C23: free-pan mode can be switched on by mouse movement without a button
\* press: a user who keeps moving the pointer over the canvas with no button
\* held eventually has free-pan on.  (While it is on, a movement changes pan
\* by the movement delta, and the next mousedown on the canvas or click on a
\* node switches it off: MouseMove, CanvasMouseDown, NodeDragEnd.)
C23_FreePanSwitchedOn == <>freePan

-----------------------------------------------------------------------------
(***************************************************************************)
(* Claims about the links                                                  *)
(***************************************************************************)

\* The parent-child edges of a tree, as pairs of ids.
EdgesOf(tree) ==
    LET all == NodesOf(tree)
    IN  UNION {{<<all[i].id, all[i].children[j].id>> :
                   j \in 1..Len(all[i].children)} : i \in 1..Len(all)}

\* The streams of the list whose parent id refers to no stream of the list.
Orphans(list) ==
    {i \in 1..Len(list) :
        /\ list[i].parent_stream_id # null
        /\ list[i].parent_stream_id \notin IdsOf(list)}

\* C24: the links of the layout are exactly the parent-child edges of the
\* display tree, each once; no link leads into a root; a stream whose parent
\* id refers to no existing stream is a root of the stream tree and, where
\* it is displayed, is placed at depth 0 with no incoming link.
C24_LinksAreTreeEdges ==
    LET links == layout.links
        linkSet == {<<links[i].sourceId, links[i].targetId>> : i \in 1..Len(links)}
    IN  /\ linkSet = EdgesOf(displayTree)
        /\ Cardinality(linkSet) = Len(links)
        /\ \A r \in 1..Len(displayTree), i \in 1..Len(links) :
              links[i].targetId # displayTree[r].id
        /\ \A o \in Orphans(streams) :
              /\ \E r \in 1..Len(streamTree) : streamTree[r].id = streams[o].id
              /\ layoutNodeOf(streams[o].id) # <<>> =>
                    /\ \E r \in 1..Len(displayTree) :
                          displayTree[r].id = streams[o].id
                    /\ layoutNodeOf(streams[o].id)[1].x = padding
                    /\ \A i \in 1..Len(links) :
                          links[i].targetId # streams[o].id

\* The parent of two displayed streams has been deleted: both are roots, one
\* of them with a child of its own, so the layout has a link but none into
\* the two.
C24_Witness ==
    /\ Cardinality(Orphans(streams)) >= 2
    /\ \A o \in Orphans(streams) : layoutNodeOf(streams[o].id) # <<>>
    /\ layout.links # <<>>
    /\ Len(displayTree) >= 2

-----------------------------------------------------------------------------
(***************************************************************************)
(* Claims about the connection handle                                      *)
(***************************************************************************)

\* r of the handle circle, and its growth while the pointer is over it
handleRadius == 8
handleHover == 2

\* The stream of the list with the given id, as a sequence of at most one.
streamOf(list, id) == SelectSeq(list, LAMBDA st : st.id = id)

\* The last completed gesture was a connection-handle gesture that made
\* exactly one create-child request, naming the node of the handle, a
\* stream that is not done.
HandleRequestMade ==
    /\ Len(outcome.creates) = 1
    /\ outcome.creates[1].parentId = outcome.node
    /\ pendingSlice = outcome.creates \/ pendingSlice = <<>>
    /\ streamOf(streams, outcome.node) # <<>>
    /\ streamOf(streams, outcome.node)[1].status # "done"

\* The position of the request is the one computed from the pointer's last
\* client coordinates: minus the container offset, minus pan, divided by
\* zoom (the top-left corner of the placeholder box, half its height above
\* the pointer).
HandleRequestAtLastMove ==
    LET last == outcome.path[Len(outcome.path)]
    IN  outcome.creates[1].position
          = Point(divZoom(last.dx - outcome.panBefore.x, outcome.zoom),
                  divZoom(last.dy - outcome.panBefore.y, outcome.zoom)
                    - placeholderHeight \div 2)

\* The position of the request is that of a pointer pressed and released on
\* the handle, the circle at the middle of the right edge of the node.
HandleRequestAtHandle ==
    LET at == getAdjustedPosition(focusedStreamId, layoutNodeOf(outcome.node)[1],
                                  outcome.before)
        p == outcome.creates[1].position
    IN  /\ Abs(p.x - (at.x + nodeWidth)) <= handleRadius + handleHover
        /\ Abs(p.y + placeholderHeight \div 2 - (at.y + nodeHeight \div 2))
             <= handleRadius + handleHover

\* C25: every connection-handle gesture (pointer-down on the handle of a
\* node that is not done, then pointer-up) emits exactly one create-child
\* request naming that node as parent and carrying the drop position computed
\* from the pointer's client coordinates at release minus container offset
\* minus pan, divided by zoom; nodes with status done offer no handle.
C25_HandleRequestAtRelease ==
    outcome.kind = "handle" =>
       /\ HandleRequestMade
       /\ IF outcome.path # <<>> THEN HandleRequestAtLastMove
                                 ELSE HandleRequestAtHandle

\* What holds on the code: one request per gesture, for a node that is not
\* done; at the pointer when the pointer has moved during the gesture, and
\* at the origin of the canvas when it has not.
C25_HandleRequestAtLastMoveOrOrigin ==
    outcome.kind = "handle" =>
       /\ HandleRequestMade
       /\ IF outcome.path # <<>> THEN HandleRequestAtLastMove
                                 ELSE outcome.creates[1].position = Point(0, 0)

-----------------------------------------------------------------------------
(***************************************************************************)
(* Claims about the target of auto-pan                                     *)
(***************************************************************************)

\* The callbacks of the auto-pan effect whose second frame is due.
AutoPanDue == SelectSeq(autoPan, LAMBDA c : c.stage = 2)

\* A frame in which the callback of the newly selected node runs, and only
\* that one.
AutoPanRuns ==
    /\ Len(AutoPanDue) = 1
    /\ AutoPanDue[1].id = selectedStreamId
    /\ log'.autoPans >= log.autoPans
    /\ Len(autoPan') = Len(autoPan) - 1
    /\ selectedStreamId' = selectedStreamId
    /\ pan' = pan

\* The screen-space rectangle of the node of a callback (its base position
\* plus its offset) under a pan, at the current zoom.
ScreenRect(c, p) ==
    LET off == offsetOf(nodeOffsets, c.id)
    IN  [left   |-> p.x + ((c.node.x + off.x) * zoom) \div 1000,
         right  |-> p.x + ((c.node.x + off.x + c.node.width) * zoom) \div 1000,
         top    |-> p.y + ((c.node.y + off.y) * zoom) \div 1000,
         bottom |-> p.y + ((c.node.y + off.y + c.node.height) * zoom) \div 1000]

WithinX(r) == 40 <= r.left /\ r.right <= container.width - 40
WithinY(r) == 40 <= r.top /\ r.bottom <= container.height - 40

\* The pan once the transition the step has started, if any, completes.
AutoPanStarts == log'.autoPans > log.autoPans

PanAfterAutoPan == IF AutoPanStarts THEN Point(anim'.targetX, anim'.targetY) ELSE pan

-----------------------------------------------------------------------------
(***************************************************************************)
(* Claims about the start of auto-pan                                      *)
(***************************************************************************)

\* The selected stream id was just selected: the callback the auto-pan effect
\* scheduled for it waits for its first frame, and the node it captured lies
\* outside the margins.
ScheduledOutside(id) ==
    \E i \in 1..Len(autoPan) :
        /\ autoPan[i].id = id
        /\ autoPan[i].stage = 1
        /\ autoPanDelta(autoPan[i], pan, zoom, nodeOffsets, container) # Point(0, 0)

\* The node of id in the current layout lies outside the margins.
OutsideNow(id) ==
    LET hit == findNode(layout.nodes, id)
    IN  /\ hit # <<>>
        /\ LET r == ScreenRect([id |-> id, node |-> hit[1]], pan)
           IN  ~(WithinX(r) /\ WithinY(r))

\* C27: when the selection changes to a node of the layout that lies outside
\* the 40 px margins, an animated pan of auto-pan is eventually started (unless
\* another stream is selected, the detail is closed or the node comes to lie
\* within the margins first), also when a snapshot is delivered between the
\* selection and the scheduled frame.
C27_AutoPanEventuallyStarted ==
    \A id \in IdsOf(PageList), k \in 0..MaxSelections :
        (selectedStreamId = id /\ ScheduledOutside(id) /\ log.autoPans = k)
            ~> (log.autoPans > k \/ selectedStreamId # id \/ ~OutsideNow(id))

\* What holds instead: the animated pan is eventually started unless a
\* snapshot is delivered before the first of the two frames.
C27_AutoPanStartedUnlessRedelivered ==
    \A id \in IdsOf(PageList), k \in 0..MaxSelections :
        (selectedStreamId = id /\ ScheduledOutside(id) /\ log.autoPans = k
           /\ log.edits = 0)
            ~> (log.autoPans > k \/ selectedStreamId # id \/ ~OutsideNow(id)
                  \/ log.edits > 0)

\* The selected node lies outside the margins, no callback and no animation
\* is left, and auto-pan has started no animated pan: the pan was lost.
C27_Lost ==
    /\ selectedStreamId # null
    /\ OutsideNow(selectedStreamId)
    /\ lastAutoPannedId = selectedStreamId
    /\ autoPan = <<>>
    /\ snapshots = <<>>
    /\ ~anim.live
    /\ log.autoPans = 0
    /\ log.selections = 1


-----------------------------------------------------------------------------
(***************************************************************************)
(* Claims about the drawing in focus mode                                  *)
(***************************************************************************)

\* Where the node i of the layout is drawn.
DrawnAt(i) == getAdjustedPosition(focusedStreamId, layout.nodes[i], nodeOffsets)

\* C28: in focus mode no two distinct nodes of the layout are drawn at the
\* same (x, y); in particular two children of the focused node are not.
C28_FocusNodesDrawnApart ==
    FocusFound =>
        \A i, j \in 1..Len(layout.nodes) : i # j => DrawnAt(i) # DrawnAt(j)

\* What holds instead: in focus mode two nodes are drawn at the same place
\* exactly when they have the same depth and are both streams (at most one
\* placeholder exists per depth), so the nodes of the ancestor chain and the
\* placeholders are drawn apart.
C28_FocusDrawnApartAcrossDepths ==
    FocusFound =>
        \A i, j \in 1..Len(layout.nodes) :
            i # j =>
               (DrawnAt(i) = DrawnAt(j)
                  <=> /\ layout.nodes[i].x = layout.nodes[j].x
                      /\ layout.nodes[i].stream.collapsed = <<>>
                      /\ layout.nodes[j].stream.collapsed = <<>>)

\* Two children of the focused stream are drawn at the same place.
C28_ChildrenCoincide ==
    /\ FocusFound
    /\ \E i, j \in 1..Len(layout.nodes) :
          /\ i # j
          /\ layout.nodes[i].parentId = focusedStreamId
          /\ layout.nodes[j].parentId = focusedStreamId
          /\ DrawnAt(i) = DrawnAt(j)


-----------------------------------------------------------------------------
(***************************************************************************)
(* Claims about the rectangles of the layout                               *)
(***************************************************************************)

\* The rectangles of two nodes of the layout overlap.
Overlap(m, n) ==
    /\ m.x < n.x + n.width
    /\ n.x < m.x + m.width
    /\ m.y < n.y + n.height
    /\ n.y < m.y + m.height

\* C29: two distinct nodes of the layout at the same depth, leaves or not,
\* have y that differ by at least nodeHeight + verticalSpacing, and no two
\* rectangles of the layout overlap.
C29_SameDepthApart ==
    \A i, j \in 1..Len(layout.nodes) :
        i # j =>
           LET m == layout.nodes[i]
               n == layout.nodes[j]
           IN  /\ m.x = n.x => Abs(m.y - n.y) >= nodeHeight + verticalSpacing
               /\ ~Overlap(m, n)

\* Focus mode on, with two nodes of the same depth of which one has children.
C29_Witness ==
    /\ FocusFound
    /\ \E i, j \in 1..Len(layout.nodes) :
          /\ i # j
          /\ layout.nodes[i].x = layout.nodes[j].x
          /\ layout.nodes[i].stream.children # <<>>
          /\ Abs(layout.nodes[i].y - layout.nodes[j].y) = nodeHeight + verticalSpacing


-----------------------------------------------------------------------------
(***************************************************************************)
(* Claims about the collapsed placeholders                                 *)
(***************************************************************************)

\* A step is a pointer gesture on a placeholder.
OnPlaceholder == \E id \in PlaceholderIds, released \in BOOLEAN : PlaceholderGesture(id, released)

\* The step is such a gesture that ends in a click on the placeholder.
ClickOnPlaceholder == \E id \in PlaceholderIds : PlaceholderGesture(id, TRUE)

\* C30: a pointer gesture on a collapsed placeholder selects no stream, changes
\* no offset, requests no position update and starts no connection drag; a
\* click on it calls onExitFocus.
C30_PlaceholderInert ==
    [][OnPlaceholder =>
          /\ selectedStreamId' = selectedStreamId
          /\ nodeOffsets' = nodeOffsets
          /\ writes' = writes
          /\ outcome'.selects = <<>> /\ outcome'.updates = <<>> /\ outcome'.creates = <<>>
          /\ gesture'.phase = "idle"
          /\ pendingSlice' = pendingSlice
          /\ ClickOnPlaceholder => focusedStreamId' = null]_vars

\* What holds instead: the gesture changes no offset a node has and gives the
\* placeholder none; the exit from focus mode its click requests seeds the
\* offsets of the streams with a persisted position that are displayed again.
C30_PlaceholderInertButSeeding ==
    [][OnPlaceholder =>
          /\ selectedStreamId' = selectedStreamId
          /\ \A id \in DOMAIN nodeOffsets :
                id \in DOMAIN nodeOffsets' /\ nodeOffsets'[id] = nodeOffsets[id]
          /\ \A id \in DOMAIN nodeOffsets' \ DOMAIN nodeOffsets :
                /\ ClickOnPlaceholder
                /\ id \in IdsOf(streams)
                /\ id \notin processedNodes
                /\ LET hit == findNode(calculateTreeLayout(buildStreamTree(streams)).nodes, id)
                   IN  /\ hit # <<>>
                       /\ streamOf(streams, id)[1].position # <<>>
                       /\ hit[1].x + nodeOffsets'[id].x = streamOf(streams, id)[1].position[1]
                       /\ hit[1].y + nodeOffsets'[id].y = streamOf(streams, id)[1].position[2]
          /\ dragOffsetRef' = dragOffsetRef
          /\ writes' = writes
          /\ outcome'.selects = <<>> /\ outcome'.updates = <<>> /\ outcome'.creates = <<>>
          /\ gesture'.phase = "idle"
          /\ pendingSlice' = pendingSlice
          /\ ClickOnPlaceholder => focusedStreamId' = null]_vars

\* A click on a placeholder has left focus mode and seeded the offset of a
\* stream that was hidden in it.
C30_Witness ==
    /\ outcome.kind = "placeholder"
    /\ focusedStreamId = null
    /\ \E id \in DOMAIN nodeOffsets : outcome.node = "collapsed-" \o id

=============================================================================
